---------------------------- MODULE Spec2Model ----------------------------
(***************************************************************************)
(* A model of the per-frame simulation core of src/main.cpp: the game      *)
(* phase state machine, the player's movement / abilities / combo attack,  *)
(* the enemy approach-windup-attack cycle, melee and projectile damage     *)
(* resolution, coins and the shop.                                         *)
(*                                                                         *)
(* Numbers.  The program computes with float seconds and float world       *)
(* coordinates.  The model uses exact integers:                            *)
(*   - time in ticks of 5 ms (Tk ticks per second), so every timer         *)
(*     constant of the source (0.03 s ... 3.0 s) and the frame times       *)
(*     25 ms and 50 ms are whole numbers;                                  *)
(*   - positions in 1/U of a world unit.  Every speed of the source is a   *)
(*     multiple of 5 units/s, so an axis-aligned step speed * dt is a whole*)
(*     number of sub-units for dt = 25 ms and 50 ms.  Normalised diagonal  *)
(*     steps are truncated toward zero to the sub-unit.                    *)
(* Rendering, audio and the animation cursor are left out: they read the   *)
(* simulation state and never write it.                                    *)
(***************************************************************************)
EXTENDS Integers, Sequences, FiniteSets, TLC

\* ---------------------------------------------------------------------
\* Units
\* ---------------------------------------------------------------------

\* sub-units per world unit (float coordinates, fixed point)
U == 8
\* ticks per second (float seconds, fixed point): one tick is 5 ms
Tk == 200

\* n hundredths of a second, in ticks
Cs(n) == 2 * n
\* n world units, in sub-units
Wu(n) == U * n

Abs(a) == IF a < 0 THEN -a ELSE a
Min2(a, b) == IF a < b THEN a ELSE b
Max2(a, b) == IF a > b THEN a ELSE b
\* C++ division of a by b > 0: truncation toward zero
Quot(a, b) == IF a >= 0 THEN a \div b ELSE -((-a) \div b)

RECURSIVE SqrtIter(_, _, _)
SqrtIter(n, lo, hi) ==
    IF lo >= hi THEN lo
    ELSE LET mid == (lo + hi + 1) \div 2
         IN  IF mid * mid <= n THEN SqrtIter(n, mid, hi)
                               ELSE SqrtIter(n, lo, mid - 1)
\* std::sqrt, to the sub-unit below
ISqrt(n) == SqrtIter(n, 0, 46340)

\* ---------------------------------------------------------------------
\* Constants of the source
\* ---------------------------------------------------------------------

GROUND_TOP == Wu(350)
GROUND_BOTTOM == Wu(430)
LEVEL_LENGTH == Wu(3000)
ENEMY_SPAWN_INTERVAL == Cs(300)
COMBO_RESET_TIME == Cs(100)
\* the clamp of the frame time: 0.05 s
MaxFrameTime == Cs(5)

PlayerSize == [x |-> Wu(40), y |-> Wu(75)]

\* std::vector<CharacterClass> classes, indexed 0..2 in the source
classes ==
    << [name |-> "Knight", maxHP |-> 170, speed |-> 180, baseDamage |-> 20, type |-> "KNIGHT"],
       [name |-> "Rogue",  maxHP |-> 110, speed |-> 270, baseDamage |-> 14, type |-> "ROGUE"],
       [name |-> "Mage",   maxHP |-> 90,  speed |-> 190, baseDamage |-> 10, type |-> "MAGE"] >>
NumClasses == Len(classes)

\* shopOptions[i].baseCost, indexed 0..2 in the source
shopOptions == << [baseCost |-> 5], [baseCost |-> 5], [baseCost |-> 5] >>

\* ---------------------------------------------------------------------
\* Geometry
\* ---------------------------------------------------------------------

MakeRect(pos, size) ==
    [x |-> pos.x - size.x \div 2, y |-> pos.y - size.y, w |-> size.x, h |-> size.y]

\* raylib CheckCollisionRecs: strict overlap on both axes
RectOverlap(a, b) ==
    /\ a.x < b.x + b.w
    /\ a.x + a.w > b.x
    /\ a.y < b.y + b.h
    /\ a.y + a.h > b.y

\* raylib CheckCollisionCircleRec.  Coordinates are doubled so that the
\* rectangle's centre and half sizes stay whole numbers.
CircleRecOverlap(c, radius, rec) ==
    LET dx == Abs(2 * c.x - (2 * rec.x + rec.w))
        dy == Abs(2 * c.y - (2 * rec.y + rec.h))
        r2 == 2 * radius
    IN  IF dx > rec.w + r2 THEN FALSE
        ELSE IF dy > rec.h + r2 THEN FALSE
        ELSE IF dx <= rec.w THEN TRUE
        ELSE IF dy <= rec.h THEN TRUE
        ELSE (dx - rec.w) * (dx - rec.w) + (dy - rec.h) * (dy - rec.h) <= r2 * r2

\* ---------------------------------------------------------------------
\* Combat math
\* ---------------------------------------------------------------------

\* The multiplier in tenths (1.3f is 13).
GetComboMultiplier(pc, step) ==
    LET s == IF step < 1 THEN 1 ELSE IF step > 3 THEN 3 ELSE step
    IN  CASE pc = "KNIGHT" -> (IF s = 1 THEN 10 ELSE IF s = 2 THEN 13 ELSE 20)
          [] pc = "ROGUE"  -> (IF s = 1 THEN 7 ELSE IF s = 2 THEN 9 ELSE 11)
          [] pc = "MAGE"   -> (IF s = 1 THEN 8 ELSE IF s = 2 THEN 10 ELSE 12)
          [] OTHER -> 10

\* (int)std::round(baseDamage * comboMul): to the nearest, halves away from
\* zero.  (No product of the reachable base damages ends in .5.)
ComboDamage(baseDamage, pc, step) ==
    (baseDamage * GetComboMultiplier(pc, step) + 5) \div 10

\* ---------------------------------------------------------------------
\* Enemy creation
\* ---------------------------------------------------------------------

EnemySize(type) ==
    CASE type = "GRUNT" -> [x |-> Wu(40),  y |-> Wu(70)]
      [] type = "FAST"  -> [x |-> Wu(32),  y |-> Wu(60)]
      [] type = "TANK"  -> [x |-> Wu(60),  y |-> Wu(90)]
      [] type = "BOSS"  -> [x |-> Wu(100), y |-> Wu(140)]

EnemyMaxHP(type) ==
    CASE type = "GRUNT" -> 90
      [] type = "FAST"  -> 80
      [] type = "TANK"  -> 150
      [] type = "BOSS"  -> 450

EnemySpeed(type) ==
    CASE type = "GRUNT" -> 80
      [] type = "FAST"  -> 135
      [] type = "TANK"  -> 55
      [] type = "BOSS"  -> 70

MakeEnemy(type, x, laneY) ==
    [ type |-> type,
      pos |-> [x |-> x, y |-> laneY],
      size |-> EnemySize(type),
      maxHP |-> EnemyMaxHP(type),
      hp |-> EnemyMaxHP(type),
      speed |-> EnemySpeed(type),
      alive |-> TRUE,
      attackCooldown |-> 0,
      windingUp |-> FALSE,
      windupTimer |-> 0,
      attackingAnim |-> FALSE,
      attackAnimTimer |-> 0,
      lastHitAttackId |-> -1,
      lastProjectileHitId |-> -1 ]

\* ---------------------------------------------------------------------
\* Shop
\* ---------------------------------------------------------------------

\* faulty variant of GetUpgradeCost: the base cost at every level
GetUpgradeCost_Flat(p, index) ==
    shopOptions[index + 1].baseCost

GetUpgradeCost(p, index) ==
    LET level == IF index = 0 THEN p.damageLevel
                 ELSE IF index = 1 THEN p.healthLevel
                 ELSE IF index = 2 THEN p.speedLevel
                 ELSE 0
    IN  shopOptions[index + 1].baseCost * (1 + level)

\* faulty variant of ApplyUpgrade: the max-HP upgrade raises the cap only
ApplyUpgrade_CapOnly(p, index) ==
    IF index = 0 THEN
        [p EXCEPT !.damageLevel = @ + 1, !.baseDamage = @ + 3]
    ELSE IF index = 1 THEN
        [p EXCEPT !.healthLevel = @ + 1, !.maxHP = @ + 15]
    ELSE IF index = 2 THEN
        [p EXCEPT !.speedLevel = @ + 1, !.speed = @ + 20]
    ELSE p

\* faulty variant of ApplyUpgrade: without p.damageLevel++;
ApplyUpgrade_NoDamageLevel(p, index) ==
    IF index = 0 THEN
        [p EXCEPT !.baseDamage = @ + 3]
    ELSE IF index = 1 THEN
        [p EXCEPT !.healthLevel = @ + 1, !.maxHP = @ + 15, !.hp = p.maxHP + 15]
    ELSE IF index = 2 THEN
        [p EXCEPT !.speedLevel = @ + 1, !.speed = @ + 20]
    ELSE p

ApplyUpgrade(p, index) ==
    IF index = 0 THEN
        [p EXCEPT !.damageLevel = @ + 1, !.baseDamage = @ + 3]
    ELSE IF index = 1 THEN
        [p EXCEPT !.healthLevel = @ + 1, !.maxHP = @ + 15, !.hp = p.maxHP + 15]
    ELSE IF index = 2 THEN
        [p EXCEPT !.speedLevel = @ + 1, !.speed = @ + 20]
    ELSE p

\* faulty variant of Purchase: without if (player.coins >= cost)
Purchase_NoFunds(p, index) ==
    ApplyUpgrade([p EXCEPT !.coins = @ - GetUpgradeCost(p, index)], index)

\* int cost = GetUpgradeCost(player, shopSelection);
\* if (player.coins >= cost) { player.coins -= cost; ApplyUpgrade(...); }
Purchase(p, index) ==
    LET cost == GetUpgradeCost(p, index)
    IN  IF p.coins >= cost
        THEN ApplyUpgrade([p EXCEPT !.coins = @ - cost], index)
        ELSE p

\* ---------------------------------------------------------------------
\* Player
\* ---------------------------------------------------------------------

\* Player player{}: the default member initialisers
NewPlayer ==
    [ pos |-> [x |-> 0, y |-> 0],
      maxHP |-> 0, hp |-> 0, speed |-> 0, baseDamage |-> 0,
      facingRight |-> TRUE,
      attacking |-> FALSE, attackTimer |-> 0, attackDuration |-> Cs(15),
      comboTimer |-> 0, comboStep |-> 0,
      attackHitbox |-> [x |-> 0, y |-> 0, w |-> 0, h |-> 0],
      coins |-> 0,
      damageLevel |-> 0, healthLevel |-> 0, speedLevel |-> 0,
      blocking |-> FALSE, blockTimer |-> 0, blockCooldown |-> 0, blockCooldownTimer |-> 0,
      dodging |-> FALSE, dodgeTimer |-> 0, dodgeDuration |-> 0, dodgeCooldown |-> 0,
      dodgeCooldownTimer |-> 0, dodgeDir |-> 0,
      blinkCooldown |-> 0, blinkCooldownTimer |-> 0,
      invincible |-> FALSE, invincibleTimer |-> 0,
      currentAttackId |-> -1 ]

\* The player part of ResetGame; attackHitbox is the one field it leaves.
ResetPlayer(p, cc) ==
    [ pos |-> [x |-> Wu(100), y |-> (GROUND_TOP + GROUND_BOTTOM) \div 2],
      maxHP |-> cc.maxHP, hp |-> cc.maxHP, speed |-> cc.speed, baseDamage |-> cc.baseDamage,
      facingRight |-> TRUE,
      attacking |-> FALSE, attackTimer |-> 0, attackDuration |-> Cs(15),
      comboTimer |-> 0, comboStep |-> 0,
      attackHitbox |-> p.attackHitbox,
      coins |-> 0,
      damageLevel |-> 0, healthLevel |-> 0, speedLevel |-> 0,
      blocking |-> FALSE, blockTimer |-> 0,
      blockCooldown |-> IF cc.type = "KNIGHT" THEN Cs(100) ELSE 0,
      blockCooldownTimer |-> 0,
      dodging |-> FALSE, dodgeTimer |-> 0,
      dodgeDuration |-> IF cc.type = "ROGUE" THEN Cs(25) ELSE 0,
      dodgeCooldown |-> IF cc.type = "ROGUE" THEN Cs(90) ELSE 0,
      dodgeCooldownTimer |-> 0, dodgeDir |-> 0,
      blinkCooldown |-> IF cc.type = "MAGE" THEN Cs(120) ELSE 0,
      blinkCooldownTimer |-> 0,
      invincible |-> FALSE, invincibleTimer |-> 0,
      currentAttackId |-> -1 ]


\* ---------------------------------------------------------------------
\* State
\* ---------------------------------------------------------------------

VARIABLES
    state,               \* GameState: "MENU", "PLAYING", "SHOP", "VICTORY", "GAMEOVER"
    selectedClassIndex,  \* 0..2
    playerClass,         \* "KNIGHT", "ROGUE", "MAGE"
    player,              \* the Player record
    enemies,             \* std::vector<Enemy>
    coins,               \* std::vector<Coin>
    projectiles,         \* std::vector<Projectile>
    bossSpawned,
    bossDefeated,
    enemySpawnTimer,
    shopSelection,       \* 0..2
    gHitStopTimer,
    gAttackCounter,
    gProjectileCounter,
    events,              \* history: what the last frame did, in program order
    applied,             \* history: the (source, enemy, instance id) pairs damaged this session
    pressed,             \* history: the confirm / shop / cancel / arrow keys of the last frame
    issued,              \* history: the attack-instance ids issued since the process started
    chron,               \* history: the simulation clock of the session and the times of
                         \* ability activations, windups and enemy attacks (see ChronAfter)
    plan,                \* which input plan drives the run (see PlayPad)
    foe,                 \* the enemy type GetRandomValue(0, 2) draws in the run
    session,             \* restarts so far (ResetGame from GAMEOVER or VICTORY)
    budget               \* free-input frames the plan has left

progVars == << state, selectedClassIndex, playerClass, player, enemies, coins, projectiles,
               bossSpawned, bossDefeated, enemySpawnTimer, shopSelection,
               gHitStopTimer, gAttackCounter, gProjectileCounter >>
vars == << state, selectedClassIndex, playerClass, player, enemies, coins, projectiles,
           bossSpawned, bossDefeated, enemySpawnTimer, shopSelection,
           gHitStopTimer, gAttackCounter, gProjectileCounter, events, applied, pressed,
           issued, chron, plan, foe, session, budget >>

\* The simulation state a PLAYING frame works on, as one record.
World ==
    [ state |-> state, playerClass |-> playerClass, player |-> player,
      enemies |-> enemies, coins |-> coins, projectiles |-> projectiles,
      bossSpawned |-> bossSpawned, bossDefeated |-> bossDefeated,
      enemySpawnTimer |-> enemySpawnTimer, gHitStopTimer |-> gHitStopTimer,
      gAttackCounter |-> gAttackCounter, gProjectileCounter |-> gProjectileCounter,
      events |-> << >>, applied |-> applied, issued |-> issued ]

\* ---------------------------------------------------------------------
\* Frame time and hit stop
\* ---------------------------------------------------------------------

\* float realDt = GetFrameTime(); if (realDt > 0.05f) realDt = 0.05f;
RealDt(raw) == IF raw > MaxFrameTime THEN MaxFrameTime ELSE raw

\* faulty variant of HitStopAfter: without gHitStopTimer -= realDt;
HitStopAfter_Stuck(timer, realDt) == IF timer < 0 THEN 0 ELSE timer

\* gHitStopTimer -= realDt; if (gHitStopTimer < 0.0f) gHitStopTimer = 0.0f;
HitStopAfter(timer, realDt) == IF timer - realDt < 0 THEN 0 ELSE timer - realDt

\* faulty variant of GameDt: the simulation runs on during hit stop
GameDt_Running(timerAfter, realDt) == realDt

\* float gameDt = (gHitStopTimer > 0.0f) ? 0.0f : realDt;
GameDt(timerAfter, realDt) == IF timerAfter > 0 THEN 0 ELSE realDt

\* ---------------------------------------------------------------------
\* PLAYING: input and movement
\* ---------------------------------------------------------------------

\* The normalised move vector, in thousandths.
MoveVector(in) ==
    LET mx == (IF in.right THEN 1 ELSE 0) - (IF in.left THEN 1 ELSE 0)
        my == (IF in.down THEN 1 ELSE 0) - (IF in.up THEN 1 ELSE 0)
    IN  IF mx # 0 /\ my # 0 THEN [x |-> 707 * mx, y |-> 707 * my]
        ELSE [x |-> 1000 * mx, y |-> 1000 * my]

\* faulty variant of ClampX: without if (player.pos.x < 0) player.pos.x = 0;
ClampX_NoLeftEnd(x) == IF x > LEVEL_LENGTH THEN LEVEL_LENGTH ELSE x

ClampX(x) == IF x < 0 THEN 0 ELSE IF x > LEVEL_LENGTH THEN LEVEL_LENGTH ELSE x
ClampY(y) == IF y < GROUND_TOP THEN GROUND_TOP ELSE IF y > GROUND_BOTTOM THEN GROUND_BOTTOM ELSE y

MovePlayer(p, in, gameDt) ==
    LET input == MoveVector(in)
        move == IF p.dodging THEN [x |-> 1000 * p.dodgeDir, y |-> 0] ELSE input
        \* moveSpeed in tenths of a unit per second: player.speed * 3.5f while dodging
        moveSpeed10 == IF p.dodging THEN p.speed * 35 ELSE p.speed * 10
        nx == p.pos.x + Quot(move.x * moveSpeed10 * gameDt * U, 10000 * Tk)
        ny == p.pos.y + Quot(move.y * p.speed * gameDt * U, 1000 * Tk)
    IN  [p EXCEPT !.pos = [x |-> ClampX(nx), y |-> ClampY(ny)],
                  !.facingRight = IF p.dodging THEN @
                                  ELSE IF move.x > 0 THEN TRUE
                                  ELSE IF move.x < 0 THEN FALSE
                                  ELSE @]

\* ---------------------------------------------------------------------
\* PLAYING: ability timers and abilities
\* ---------------------------------------------------------------------

\* if (t > 0.0f) t -= gameDt; if (t < 0.0f) t = 0.0f;
CooldownTick(t, gameDt) ==
    LET t1 == IF t > 0 THEN t - gameDt ELSE t
    IN  IF t1 < 0 THEN 0 ELSE t1

AbilityTimers(p, gameDt) ==
    LET inv1 == IF p.invincibleTimer > 0 THEN p.invincibleTimer - gameDt ELSE p.invincibleTimer
    IN  [p EXCEPT !.blockCooldownTimer = CooldownTick(@, gameDt),
                  !.dodgeCooldownTimer = CooldownTick(@, gameDt),
                  !.blinkCooldownTimer = CooldownTick(@, gameDt),
                  !.invincibleTimer = inv1,
                  !.invincible = IF p.invincibleTimer > 0 /\ inv1 <= 0 THEN FALSE ELSE @]

\* faulty variant of KnightBlock: without playerClass == CharacterClass::KNIGHT
KnightBlock_AnyClass(p, pc, in, gameDt) ==
    LET p1 == IF ~p.blocking /\ p.blockCooldownTimer <= 0 /\ in.k
              THEN [p EXCEPT !.blocking = TRUE,
                             !.blockTimer = Cs(70),
                             !.blockCooldownTimer = p.blockCooldown]
              ELSE p
    IN  IF p1.blocking
        THEN [p1 EXCEPT !.blockTimer = @ - gameDt,
                        !.blocking = ~(p1.blockTimer - gameDt <= 0)]
        ELSE p1

KnightBlock(p, pc, in, gameDt) ==
    IF pc # "KNIGHT" THEN p
    ELSE LET p1 == IF ~p.blocking /\ p.blockCooldownTimer <= 0 /\ in.k
                   THEN [p EXCEPT !.blocking = TRUE,
                                  !.blockTimer = Cs(70),
                                  !.blockCooldownTimer = p.blockCooldown]
                   ELSE p
         IN  IF p1.blocking
             THEN [p1 EXCEPT !.blockTimer = @ - gameDt,
                             !.blocking = ~(p1.blockTimer - gameDt <= 0)]
             ELSE p1

\* faulty variant of RogueDodge: the invincibility lasts half the dodge
RogueDodge_HalfInvincible(p, pc, in, gameDt) ==
    IF pc # "ROGUE" THEN p
    ELSE LET p1 == IF ~p.dodging /\ p.dodgeCooldownTimer <= 0 /\ in.k
                   THEN [p EXCEPT !.dodging = TRUE,
                                  !.dodgeTimer = p.dodgeDuration,
                                  !.dodgeCooldownTimer = p.dodgeCooldown,
                                  !.dodgeDir = IF p.facingRight THEN 1 ELSE -1,
                                  !.invincible = TRUE,
                                  !.invincibleTimer = p.dodgeDuration \div 2]
                   ELSE p
         IN  IF p1.dodging
             THEN [p1 EXCEPT !.dodgeTimer = @ - gameDt,
                             !.dodging = ~(p1.dodgeTimer - gameDt <= 0)]
             ELSE p1

\* faulty variant of RogueDodge: without player.dodgeCooldownTimer <= 0.0f
RogueDodge_NoCooldown(p, pc, in, gameDt) ==
    IF pc # "ROGUE" THEN p
    ELSE LET p1 == IF ~p.dodging /\ in.k
                   THEN [p EXCEPT !.dodging = TRUE,
                                  !.dodgeTimer = p.dodgeDuration,
                                  !.dodgeCooldownTimer = p.dodgeCooldown,
                                  !.dodgeDir = IF p.facingRight THEN 1 ELSE -1,
                                  !.invincible = TRUE,
                                  !.invincibleTimer = p.dodgeDuration]
                   ELSE p
         IN  IF p1.dodging
             THEN [p1 EXCEPT !.dodgeTimer = @ - gameDt,
                             !.dodging = ~(p1.dodgeTimer - gameDt <= 0)]
             ELSE p1

RogueDodge(p, pc, in, gameDt) ==
    IF pc # "ROGUE" THEN p
    ELSE LET p1 == IF ~p.dodging /\ p.dodgeCooldownTimer <= 0 /\ in.k
                   THEN [p EXCEPT !.dodging = TRUE,
                                  !.dodgeTimer = p.dodgeDuration,
                                  !.dodgeCooldownTimer = p.dodgeCooldown,
                                  !.dodgeDir = IF p.facingRight THEN 1 ELSE -1,
                                  !.invincible = TRUE,
                                  !.invincibleTimer = p.dodgeDuration]
                   ELSE p
         IN  IF p1.dodging
             THEN [p1 EXCEPT !.dodgeTimer = @ - gameDt,
                             !.dodging = ~(p1.dodgeTimer - gameDt <= 0)]
             ELSE p1

MageBlink(p, pc, in) ==
    IF pc = "MAGE" /\ p.blinkCooldownTimer <= 0 /\ in.k
    THEN LET dir == IF p.facingRight THEN 1 ELSE -1
         IN  [p EXCEPT !.pos.x = ClampX(p.pos.x + dir * Wu(150)),
                       !.blinkCooldownTimer = p.blinkCooldown,
                       !.invincible = TRUE,
                       !.invincibleTimer = Cs(15)]
    ELSE p


\* ---------------------------------------------------------------------
\* PLAYING: attack and combo
\* ---------------------------------------------------------------------

\* faulty variant of ComboTimer: the combo resets after 0.1 s
ComboTimer_Short(p, gameDt) ==
    IF p.comboTimer + gameDt > Cs(10)
    THEN [p EXCEPT !.comboTimer = 0, !.comboStep = 0]
    ELSE [p EXCEPT !.comboTimer = @ + gameDt]

ComboTimer(p, gameDt) ==
    IF p.comboTimer + gameDt > COMBO_RESET_TIME
    THEN [p EXCEPT !.comboTimer = 0, !.comboStep = 0]
    ELSE [p EXCEPT !.comboTimer = @ + gameDt]

\* faulty variant of NextComboStep: the step stays at 3
NextComboStep_NoWrap(step) == IF step + 1 > 3 THEN 3 ELSE step + 1

\* player.comboStep++; if (player.comboStep > 3) player.comboStep = 1;
NextComboStep(step) == IF step + 1 > 3 THEN 1 ELSE step + 1

\* [duration, attackRange, attackWidth, attackHeight] of a melee swing
MeleeShape(pc, step) ==
    IF pc = "KNIGHT"
    THEN (IF step = 1 THEN [dur |-> Cs(28), range |-> 55, w |-> 60, h |-> 70]
          ELSE IF step = 2 THEN [dur |-> Cs(32), range |-> 65, w |-> 70, h |-> 75]
          ELSE [dur |-> Cs(40), range |-> 80, w |-> 85, h |-> 80])
    ELSE (IF step = 1 THEN [dur |-> Cs(12), range |-> 45, w |-> 35, h |-> 55]
          ELSE IF step = 2 THEN [dur |-> Cs(14), range |-> 55, w |-> 40, h |-> 55]
          ELSE [dur |-> Cs(16), range |-> 60, w |-> 45, h |-> 55])

\* Vector2 center = { pos.x + dir * (attackRange * 0.6f), pos.y }, width + 20
MeleeHitbox(p, dir, shape) ==
    MakeRect([x |-> p.pos.x + dir * ((shape.range * 6 * U) \div 10), y |-> p.pos.y],
             [x |-> Wu(shape.w + 20), y |-> Wu(shape.h)])

MakeProjectile(p, pc, dir, step, id) ==
    [ active |-> TRUE,
      life |-> Cs(120),
      radius |-> IF step = 1 THEN Wu(18) ELSE IF step = 2 THEN Wu(22) ELSE Wu(26),
      vel |-> [x |-> dir * (IF step = 1 THEN 420 ELSE IF step = 2 THEN 460 ELSE 520), y |-> 0],
      pos |-> [x |-> p.pos.x + dir * Wu(30), y |-> p.pos.y - Wu(25)],
      damage |-> ComboDamage(p.baseDamage, pc, step),
      id |-> id ]

\* if (!player.attacking && IsKeyPressed(KEY_J)) { ... }
AttackPress(w, in) ==
    LET p == w.player
        pc == w.playerClass
    IN  IF ~(~p.attacking /\ in.j) THEN w
        ELSE LET step == NextComboStep(p.comboStep)
                 dir == IF p.facingRight THEN 1 ELSE -1
                 p1 == [p EXCEPT !.attacking = TRUE, !.attackTimer = 0,
                                 !.attackDuration = Cs(15),
                                 !.comboTimer = 0, !.comboStep = step]
             IN  IF pc = "KNIGHT" \/ pc = "ROGUE"
                 THEN LET shape == MeleeShape(pc, step)
                          id == w.gAttackCounter + 1
                      IN  [w EXCEPT !.gAttackCounter = id,
                                    !.player = [p1 EXCEPT !.currentAttackId = id,
                                                          !.attackDuration = shape.dur,
                                                          !.attackHitbox = MeleeHitbox(p, dir, shape)],
                                    !.events = Append(@, [kind |-> "swing", e |-> 0, id |-> id,
                                                          from |-> p.comboStep, to |-> step,
                                                          earlier |-> w.issued]),
                                    !.issued = @ \cup {id}]
                 ELSE [w EXCEPT !.gProjectileCounter = @ + 1,
                                !.player = [p1 EXCEPT !.attackDuration = Cs(22)],
                                !.events = Append(@, [kind |-> "cast", e |-> 0,
                                                      id |-> w.gProjectileCounter + 1,
                                                      from |-> p.comboStep, to |-> step]),
                                !.projectiles = Append(@, MakeProjectile(p, pc, dir, step,
                                                                         w.gProjectileCounter + 1))]

AttackTimer(p, gameDt) ==
    IF p.attacking
    THEN [p EXCEPT !.attackTimer = @ + gameDt,
                   !.attacking = ~(p.attackTimer + gameDt > p.attackDuration)]
    ELSE p

\* ---------------------------------------------------------------------
\* PLAYING: spawning
\* ---------------------------------------------------------------------

SpawnType(r) == IF r = 1 THEN "FAST" ELSE IF r = 2 THEN "TANK" ELSE "GRUNT"

\* in.rndLane, in.rndX, in.rndType stand for GetRandomValue(0, 100),
\* GetRandomValue(250, 450) and GetRandomValue(0, 2)
SpawnEnemy(w, in, gameDt) ==
    LET t == w.enemySpawnTimer + gameDt
    IN  IF t > ENEMY_SPAWN_INTERVAL /\ ~w.bossSpawned
        THEN LET lane0 == GROUND_TOP + Wu(in.rndLane)
                 laneY == IF lane0 > GROUND_BOTTOM THEN GROUND_BOTTOM ELSE lane0
                 x0 == w.player.pos.x + Wu(in.rndX)
                 x1 == IF x0 < Wu(400) THEN Wu(400) ELSE x0
                 spawnX == IF x1 > LEVEL_LENGTH - Wu(300) THEN LEVEL_LENGTH - Wu(300) ELSE x1
             IN  [w EXCEPT !.enemySpawnTimer = 0,
                           !.enemies = Append(@, MakeEnemy(SpawnType(in.rndType), spawnX, laneY))]
        ELSE [w EXCEPT !.enemySpawnTimer = t]

\* faulty variant of SpawnBoss: without !bossSpawned
SpawnBoss_Again(w) ==
    IF w.player.pos.x > LEVEL_LENGTH - Wu(600)
    THEN [w EXCEPT !.bossSpawned = TRUE,
                   !.enemies = Append(@, MakeEnemy("BOSS", LEVEL_LENGTH - Wu(200),
                                                   (GROUND_TOP + GROUND_BOTTOM) \div 2))]
    ELSE w

SpawnBoss(w) ==
    IF ~w.bossSpawned /\ w.player.pos.x > LEVEL_LENGTH - Wu(600)
    THEN [w EXCEPT !.bossSpawned = TRUE,
                   !.enemies = Append(@, MakeEnemy("BOSS", LEVEL_LENGTH - Wu(200),
                                                   (GROUND_TOP + GROUND_BOTTOM) \div 2))]
    ELSE w

\* ---------------------------------------------------------------------
\* PLAYING: projectile update
\* ---------------------------------------------------------------------

\* faulty variant of UpdateProjectile: without p.life <= 0.0f
UpdateProjectile_NoExpiry(q, gameDt) ==
    IF ~q.active THEN q
    ELSE LET nx == q.pos.x + Quot(q.vel.x * gameDt * U, Tk)
             ny == q.pos.y + Quot(q.vel.y * gameDt * U, Tk)
         IN  [q EXCEPT !.pos = [x |-> nx, y |-> ny],
                       !.life = q.life - gameDt,
                       !.active = ~(nx < -Wu(200) \/ nx > LEVEL_LENGTH + Wu(200))]

UpdateProjectile(q, gameDt) ==
    IF ~q.active THEN q
    ELSE LET nx == q.pos.x + Quot(q.vel.x * gameDt * U, Tk)
             ny == q.pos.y + Quot(q.vel.y * gameDt * U, Tk)
             life == q.life - gameDt
         IN  [q EXCEPT !.pos = [x |-> nx, y |-> ny],
                       !.life = life,
                       !.active = ~(life <= 0 \/ nx < -Wu(200) \/ nx > LEVEL_LENGTH + Wu(200))]

UpdateProjectiles(qs, gameDt) ==
    [k \in 1..Len(qs) |-> UpdateProjectile(qs[k], gameDt)]


\* ---------------------------------------------------------------------
\* PLAYING: enemy AI and damage
\* ---------------------------------------------------------------------

\* float baseWindup = 0.35f; FAST 0.25f; TANK 0.45f; BOSS 0.6f
WindupTime(type) ==
    IF type = "FAST" THEN Cs(25)
    ELSE IF type = "TANK" THEN Cs(45)
    ELSE IF type = "BOSS" THEN Cs(60)
    ELSE Cs(35)

\* int dmg = 6; FAST 8; TANK 13; BOSS 20
EnemyDamage(type) ==
    IF type = "BOSS" THEN 20
    ELSE IF type = "TANK" THEN 13
    ELSE IF type = "FAST" THEN 8
    ELSE 6

\* int coinCount = 1; TANK 3; BOSS 10
CoinCount(type) ==
    IF type = "BOSS" THEN 10
    ELSE IF type = "TANK" THEN 3
    ELSE 1

\* faulty variant of EnemyMove: the approach goes on in windup and attack animation
EnemyMove_Always(e, p, gameDt) ==
    LET dx == p.pos.x - e.pos.x
        dy == p.pos.y - e.pos.y
        d2 == dx * dx + dy * dy
        far == d2 > Wu(5) * Wu(5)
        dist == ISqrt(d2)
        sx == IF far THEN Quot(dx * e.speed * gameDt * U, dist * Tk) ELSE 0
        sy == IF far THEN Quot(dy * e.speed * 6 * gameDt * U, dist * Tk * 10) ELSE 0
    IN  [e EXCEPT !.pos = [x |-> e.pos.x + sx, y |-> ClampY(e.pos.y + sy)]]

\* Movement only if not in windup / attack anim: toward the player, x at
\* speed, y at 0.6 * speed, y clamped to the lane.
EnemyMove(e, p, gameDt) ==
    IF e.windingUp \/ e.attackingAnim THEN e
    ELSE LET dx == p.pos.x - e.pos.x
             dy == p.pos.y - e.pos.y
             d2 == dx * dx + dy * dy
             far == d2 > Wu(5) * Wu(5)
             dist == ISqrt(d2)
             sx == IF far THEN Quot(dx * e.speed * gameDt * U, dist * Tk) ELSE 0
             sy == IF far THEN Quot(dy * e.speed * 6 * gameDt * U, dist * Tk * 10) ELSE 0
         IN  [e EXCEPT !.pos = [x |-> e.pos.x + sx, y |-> ClampY(e.pos.y + sy)]]

\* e.attackCooldown -= gameDt; if (e.attackCooldown < 0.0f) e.attackCooldown = 0.0f;
EnemyCooldown(e, gameDt) ==
    [e EXCEPT !.attackCooldown = IF @ - gameDt < 0 THEN 0 ELSE @ - gameDt]

\* faulty variant of WindupEntry: without e.attackCooldown <= 0.0f
WindupEntry_NoCooldown(e, pr) ==
    IF ~e.windingUp /\ ~e.attackingAnim
       /\ RectOverlap(MakeRect(e.pos, e.size), pr)
    THEN [e EXCEPT !.windingUp = TRUE, !.windupTimer = WindupTime(e.type)]
    ELSE e

\* Enemy attack windup + telegraph
WindupEntry(e, pr) ==
    IF ~e.windingUp /\ ~e.attackingAnim /\ e.attackCooldown <= 0
       /\ RectOverlap(MakeRect(e.pos, e.size), pr)
    THEN [e EXCEPT !.windingUp = TRUE, !.windupTimer = WindupTime(e.type)]
    ELSE e

\* faulty variant of FinalDamage: the blocked third rounded to the nearest
FinalDamage_RoundedBlock(type, invincible, blocking, pc) ==
    IF invincible THEN 0
    ELSE IF blocking /\ pc = "KNIGHT" THEN (EnemyDamage(type) + 1) \div 3
    ELSE EnemyDamage(type)

\* int finalDmg = dmg; invincible: 0; blocking Knight: dmg / 3
FinalDamage(type, invincible, blocking, pc) ==
    IF invincible THEN 0
    ELSE IF blocking /\ pc = "KNIGHT" THEN EnemyDamage(type) \div 3
    ELSE EnemyDamage(type)

\* faulty variant of PlayerHit: without if (player.hp < 0) player.hp = 0;
PlayerHit_NoFloor(w, finalDmg) ==
    IF finalDmg > 0
    THEN [w EXCEPT !.player.hp = w.player.hp - finalDmg,
                   !.gHitStopTimer = Max2(@, Cs(5))]
    ELSE w

\* if (finalDmg > 0) { hp -= finalDmg; if (hp < 0) hp = 0; hit stop 0.05 }
PlayerHit(w, finalDmg) ==
    IF finalDmg > 0
    THEN [w EXCEPT !.player.hp = IF w.player.hp - finalDmg < 0 THEN 0 ELSE w.player.hp - finalDmg,
                   !.gHitStopTimer = Max2(@, Cs(5))]
    ELSE w

\* faulty variant of AfterWindup: the attack cooldown is not set
AfterWindup_NoCooldown(e, t) ==
    [e EXCEPT !.windupTimer = t,
              !.windingUp = FALSE,
              !.attackingAnim = TRUE,
              !.attackAnimTimer = Cs(22)]

\* windingUp = false; attackingAnim = true; attackAnimTimer = 0.22f;
\* attackCooldown = 1.1f;  (t is the windup timer after this frame's decrement)
AfterWindup(e, t) ==
    [e EXCEPT !.windupTimer = t,
              !.windingUp = FALSE,
              !.attackingAnim = TRUE,
              !.attackAnimTimer = Cs(22),
              !.attackCooldown = Cs(110)]

\* if (e.windingUp) { windupTimer -= gameDt; if (windupTimer <= 0) { ... } }
WindupExpiry(w, i, gameDt) ==
    LET e == w.enemies[i]
        t == e.windupTimer - gameDt
    IN  IF ~e.windingUp THEN w
        ELSE IF ~(t <= 0) THEN [w EXCEPT !.enemies[i].windupTimer = t]
        ELSE LET overlap == RectOverlap(MakeRect(e.pos, e.size),
                                        MakeRect(w.player.pos, PlayerSize))
                 finalDmg == FinalDamage(e.type, w.player.invincible, w.player.blocking,
                                         w.playerClass)
                 w1 == IF overlap THEN PlayerHit(w, finalDmg) ELSE w
                 ev == [kind |-> "enemyAttack", e |-> i, type |-> e.type,
                        overlap |-> overlap,
                        invincible |-> w.player.invincible,
                        blocking |-> w.player.blocking,
                        hpBefore |-> w.player.hp, hpAfter |-> w1.player.hp,
                        gameDt |-> gameDt]
             IN  [w1 EXCEPT !.enemies[i] = AfterWindup(e, t),
                            !.events = Append(@, ev)]

\* if (e.attackingAnim) { attackAnimTimer -= gameDt; if (<= 0) attackingAnim = false; }
AttackAnim(e, gameDt) ==
    IF e.attackingAnim
    THEN [e EXCEPT !.attackAnimTimer = @ - gameDt,
                   !.attackingAnim = ~(e.attackAnimTimer - gameDt <= 0)]
    ELSE e

\* Coin c{}; c.pos = { e.pos.x + GetRandomValue(-10, 10), e.pos.y - GetRandomValue(0, 20) };
\* in.rndJx and in.rndJy stand for the two random values of every coin of the frame
CoinBurst(cs, pos, n, in) ==
    cs \o [k \in 1..n |-> [pos |-> [x |-> pos.x + Wu(in.rndJx), y |-> pos.y - Wu(in.rndJy)],
                           collected |-> FALSE]]

\* faulty variant of MeleeDeath: the boss's death leaves the phase alone
MeleeDeath_NoVictory(w, i, in) ==
    LET e == w.enemies[i]
    IN  IF e.hp <= 0
        THEN LET w1 == [w EXCEPT !.enemies[i].alive = FALSE,
                                 !.coins = CoinBurst(@, e.pos, CoinCount(e.type), in),
                                 !.events = Append(@, [kind |-> "death", e |-> i, type |-> e.type,
                                                       coins |-> CoinCount(e.type)])]
             IN  IF e.type = "BOSS" THEN [w1 EXCEPT !.bossDefeated = TRUE] ELSE w1
        ELSE w

\* if (e.hp <= 0) { alive = false; coins; boss: bossDefeated, VICTORY }  (melee)
MeleeDeath(w, i, in) ==
    LET e == w.enemies[i]
    IN  IF e.hp <= 0
        THEN LET w1 == [w EXCEPT !.enemies[i].alive = FALSE,
                                 !.coins = CoinBurst(@, e.pos, CoinCount(e.type), in),
                                 !.events = Append(@, [kind |-> "death", e |-> i, type |-> e.type,
                                                       coins |-> CoinCount(e.type)])]
             IN  IF e.type = "BOSS"
                 THEN [w1 EXCEPT !.bossDefeated = TRUE, !.state = "VICTORY"]
                 ELSE w1
        ELSE w

\* Knockback on every melee hit: Knight 90 (step 3) or 35, Rogue 22
KnockDist(pc, step) ==
    IF pc = "KNIGHT" THEN (IF step = 3 THEN Wu(90) ELSE Wu(35)) ELSE Wu(22)

\* Hitstop mainly for melee: Knight step 3 0.06f, else 0.03f
MeleeHitStop(pc, step) == IF pc = "KNIGHT" /\ step = 3 THEN Cs(6) ELSE Cs(3)

\* faulty variant of MeleeGate: the overlap alone, without the id gate
MeleeGate_NoId(e, p) ==
    RectOverlap(p.attackHitbox, MakeRect(e.pos, e.size))

\* whether enemy e is to take the damage of the current attack instance
MeleeGate(e, p) ==
    e.lastHitAttackId # p.currentAttackId
    /\ RectOverlap(p.attackHitbox, MakeRect(e.pos, e.size))

\* Player melee attack hits enemy: one hit per enemy per attackId
MeleeHit(w, i, in) ==
    LET e == w.enemies[i]
        p == w.player
        pc == w.playerClass
    IN  IF (pc = "KNIGHT" \/ pc = "ROGUE") /\ p.attacking /\ p.currentAttackId >= 0
           /\ MeleeGate(e, p)
        THEN LET dmg == ComboDamage(p.baseDamage, pc, p.comboStep)
                 kdDir == IF e.pos.x < p.pos.x THEN -1 ELSE 1
                 key == << "melee", i, p.currentAttackId >>
                 ev == [kind |-> "melee", e |-> i, id |-> p.currentAttackId,
                        step |-> p.comboStep, baseDamage |-> p.baseDamage,
                        hpBefore |-> e.hp, hpAfter |-> e.hp - dmg,
                        repeat |-> key \in w.applied]
                 w1 == [w EXCEPT !.enemies[i] =
                                     [e EXCEPT !.lastHitAttackId = p.currentAttackId,
                                               !.hp = e.hp - dmg,
                                               !.pos.x = e.pos.x + kdDir * KnockDist(pc, p.comboStep)],
                                 !.gHitStopTimer = Max2(@, MeleeHitStop(pc, p.comboStep)),
                                 !.events = Append(@, ev),
                                 !.applied = @ \cup {key}]
             IN  MeleeDeath(w1, i, in)
        ELSE w

\* faulty variant of EnemyStep: without if (!e.alive) continue;
EnemyStep_NoAliveGuard(w, i, in, gameDt) ==
    LET pr == MakeRect(w.player.pos, PlayerSize)
        e0 == EnemyCooldown(EnemyMove(w.enemies[i], w.player, gameDt), gameDt)
        e1 == WindupEntry(e0, pr)
        w0 == [w EXCEPT !.enemies[i] = e1,
                        !.events = IF e1.windingUp /\ ~e0.windingUp
                                   THEN Append(@, [kind |-> "windup", e |-> i, enemy |-> e0,
                                                   player |-> w.player])
                                   ELSE @]
        w1 == WindupExpiry(w0, i, gameDt)
        w2 == [w1 EXCEPT !.enemies[i] = AttackAnim(@, gameDt)]
    IN  MeleeHit(w2, i, in)

\* One iteration of for (auto& e : enemies)
EnemyStep(w, i, in, gameDt) ==
    IF ~w.enemies[i].alive THEN w
    ELSE LET pr == MakeRect(w.player.pos, PlayerSize)
             e0 == EnemyCooldown(EnemyMove(w.enemies[i], w.player, gameDt), gameDt)
             e1 == WindupEntry(e0, pr)
             w0 == [w EXCEPT !.enemies[i] = e1,
                             !.events = IF e1.windingUp /\ ~e0.windingUp
                                        THEN Append(@, [kind |-> "windup", e |-> i, enemy |-> e0,
                                                        player |-> w.player])
                                        ELSE @]
             w1 == WindupExpiry(w0, i, gameDt)
             w2 == [w1 EXCEPT !.enemies[i] = AttackAnim(@, gameDt)]
         IN  MeleeHit(w2, i, in)

RECURSIVE EnemyLoop(_, _, _, _)
EnemyLoop(w, i, in, gameDt) ==
    IF i > Len(w.enemies) THEN w
    ELSE EnemyLoop(EnemyStep(w, i, in, gameDt), i + 1, in, gameDt)


\* ---------------------------------------------------------------------
\* PLAYING: projectile hits, coins, terminal check
\* ---------------------------------------------------------------------

\* if (e.hp <= 0) { alive = false; coins; boss: bossDefeated, VICTORY }  (projectile)
ProjectileDeath(w, i, in) ==
    LET e == w.enemies[i]
    IN  IF e.hp <= 0
        THEN LET w1 == [w EXCEPT !.enemies[i].alive = FALSE,
                                 !.coins = CoinBurst(@, e.pos, CoinCount(e.type), in),
                                 !.events = Append(@, [kind |-> "death", e |-> i, type |-> e.type,
                                                       coins |-> CoinCount(e.type)])]
             IN  IF e.type = "BOSS"
                 THEN [w1 EXCEPT !.bossDefeated = TRUE, !.state = "VICTORY"]
                 ELSE w1
        ELSE w

\* whether enemy e is to take the damage of projectile q
ProjectileGate(e, q) ==
    CircleRecOverlap(q.pos, q.radius, MakeRect(e.pos, e.size))
    /\ e.lastProjectileHitId # q.id

\* faulty variant of ProjectileHit: the hit uses the projectile up
ProjectileHit_Consumed(w, k, i, in) ==
    LET q == w.projectiles[k]
        e == w.enemies[i]
    IN  IF q.active /\ e.alive /\ ProjectileGate(e, q)
        THEN LET key == << "proj", i, q.id >>
                 ev == [kind |-> "proj", e |-> i, k |-> k, id |-> q.id, damage |-> q.damage,
                        hpBefore |-> e.hp, hpAfter |-> e.hp - q.damage,
                        repeat |-> key \in w.applied,
                        enemy |-> e, projectile |-> q, hitStop |-> w.gHitStopTimer]
                 w1 == [w EXCEPT !.enemies[i] = [e EXCEPT !.lastProjectileHitId = q.id,
                                                          !.hp = e.hp - q.damage],
                                 !.projectiles[k].active = FALSE,
                                 !.events = Append(@, ev),
                                 !.applied = @ \cup {key}]
             IN  ProjectileDeath(w1, i, in)
        ELSE w

\* the body of for (auto& e : enemies) inside for (auto& p : projectiles)
ProjectileHit(w, k, i, in) ==
    LET q == w.projectiles[k]
        e == w.enemies[i]
    IN  IF e.alive /\ ProjectileGate(e, q)
        THEN LET key == << "proj", i, q.id >>
                 ev == [kind |-> "proj", e |-> i, k |-> k, id |-> q.id, damage |-> q.damage,
                        hpBefore |-> e.hp, hpAfter |-> e.hp - q.damage,
                        repeat |-> key \in w.applied,
                        enemy |-> e, projectile |-> q, hitStop |-> w.gHitStopTimer]
                 w1 == [w EXCEPT !.enemies[i] = [e EXCEPT !.lastProjectileHitId = q.id,
                                                          !.hp = e.hp - q.damage],
                                 !.events = Append(@, ev),
                                 !.applied = @ \cup {key}]
             IN  ProjectileDeath(w1, i, in)
        ELSE w

RECURSIVE ProjectileEnemies(_, _, _, _)
ProjectileEnemies(w, k, i, in) ==
    IF i > Len(w.enemies) THEN w
    ELSE ProjectileEnemies(ProjectileHit(w, k, i, in), k, i + 1, in)

RECURSIVE ProjectileLoop(_, _, _)
ProjectileLoop(w, k, in) ==
    IF k > Len(w.projectiles) THEN w
    ELSE IF ~w.projectiles[k].active THEN ProjectileLoop(w, k + 1, in)
    ELSE ProjectileLoop(ProjectileEnemies(w, k, 1, in), k + 1, in)

\* Mage projectiles (piercing, 1 hit per enemy, NO hitstop)
ProjectileHits(w, in) ==
    IF w.playerClass = "MAGE" THEN ProjectileLoop(w, 1, in) ELSE w

\* Rectangle cr = { c.pos.x - 6, c.pos.y - 6, 12, 12 }
CoinTouched(c, p) ==
    ~c.collected
    /\ RectOverlap([x |-> c.pos.x - Wu(6), y |-> c.pos.y - Wu(6), w |-> Wu(12), h |-> Wu(12)],
                   MakeRect(p.pos, PlayerSize))

\* faulty variant of CollectCoins: without c.collected = true;
CollectCoins_NoFlag(w) ==
    LET got == {k \in 1..Len(w.coins) : CoinTouched(w.coins[k], w.player)}
    IN  [w EXCEPT !.player.coins = @ + Cardinality(got)]

\* for (auto& c : coins) { if (c.collected) continue; ... collected = true; coins++ }
CollectCoins(w) ==
    LET got == {k \in 1..Len(w.coins) : CoinTouched(w.coins[k], w.player)}
    IN  [w EXCEPT !.coins = [k \in 1..Len(w.coins) |->
                                 IF k \in got THEN [w.coins[k] EXCEPT !.collected = TRUE]
                                 ELSE w.coins[k]],
                  !.player.coins = @ + Cardinality(got)]

\* faulty variant of GameOverCheck: hp < 0 for hp <= 0
GameOverCheck_Negative(w) ==
    IF w.player.hp < 0 THEN [w EXCEPT !.state = "GAMEOVER"] ELSE w

\* if (player.hp <= 0) state = GameState::GAMEOVER;
GameOverCheck(w) ==
    IF w.player.hp <= 0 THEN [w EXCEPT !.state = "GAMEOVER"] ELSE w

\* ---------------------------------------------------------------------
\* PLAYING: the frame
\* ---------------------------------------------------------------------

\* Input & movement, shop access, ability timers and abilities
PlayerPhase(w, in, gameDt) ==
    LET pc == w.playerClass
        p1 == MovePlayer(w.player, in, gameDt)
        p2 == AbilityTimers(p1, gameDt)
        p3 == MageBlink(RogueDodge(KnightBlock(p2, pc, in, gameDt), pc, in, gameDt), pc, in)
        used == IF p3.blockCooldownTimer # p2.blockCooldownTimer THEN << "block" >>
                ELSE IF p3.dodgeCooldownTimer # p2.dodgeCooldownTimer THEN << "dodge" >>
                ELSE IF p3.blinkCooldownTimer # p2.blinkCooldownTimer THEN << "blink" >>
                ELSE << >>
    IN  [w EXCEPT !.player = p3,
                  !.state = IF in.tab THEN "SHOP" ELSE @,
                  !.events = @ \o [j \in 1..Len(used) |->
                                      [kind |-> "ability", e |-> 0, name |-> used[j],
                                       before |-> p2]]]

\* ATTACK / COMBO
AttackPhase(w, in, gameDt) ==
    LET w1 == AttackPress([w EXCEPT !.player = ComboTimer(@, gameDt)], in)
    IN  [w1 EXCEPT !.player = AttackTimer(@, gameDt)]

PlayingFrame(w, in, gameDt) ==
    LET w1 == AttackPhase(PlayerPhase(w, in, gameDt), in, gameDt)
        w2 == SpawnBoss(SpawnEnemy(w1, in, gameDt))
        w3 == [w2 EXCEPT !.projectiles = UpdateProjectiles(@, gameDt)]
        w4 == EnemyLoop(w3, 1, in, gameDt)
        w5 == ProjectileHits(w4, in)
    IN  GameOverCheck(CollectCoins(w5))


\* ---------------------------------------------------------------------
\* Bounds of the model
\* ---------------------------------------------------------------------

\* enemies in the vector (dead ones stay in it); the frame that would spawn
\* one more is not taken
MaxEnemies == 9
\* projectiles in the vector (inactive ones stay in it)
MaxProjectiles == 48
\* frames a plan may draw freely from its input set
MaxFree == 14
\* frames a plan lets pass without keys after them
MaxCoast == 24
\* distance (world units) to the nearest enemy at which a swing plan starts
SwingRange == 160
\* distance (world units) from an enemy at which the farm plan stands
FarmReach == 60
\* boss HP at which the duel plan stops swinging
DuelHP == 15
\* currency with which the shop plan opens the shop
ShopCoins == 15
\* distance (world units) to which the corner plan lets an enemy come
CornerReach == 8

\* ---------------------------------------------------------------------
\* Inputs
\* ---------------------------------------------------------------------

\* A PLAYING frame's input snapshot: the raw frame time, the keys held
\* (move) and pressed (tab, k, j), and the values GetRandomValue returns.
\* free marks a frame counted against the plan's budget.
NoKeys ==
    [ dt |-> Cs(5), left |-> FALSE, right |-> FALSE, up |-> FALSE, down |-> FALSE,
      tab |-> FALSE, k |-> FALSE, j |-> FALSE,
      rndLane |-> 40, rndX |-> 250, rndType |-> 0, rndJx |-> 0, rndJy |-> 0,
      free |-> FALSE ]

\* A MENU / SHOP / GAMEOVER / VICTORY frame's input snapshot.
NoUiKeys ==
    [ dt |-> Cs(5), keyLeft |-> FALSE, keyRight |-> FALSE, keyUp |-> FALSE, keyDown |-> FALSE,
      enter |-> FALSE, tab |-> FALSE, esc |-> FALSE, free |-> FALSE ]

\* what IsKeyPressed reported in a frame, for the keys of the screens
UiPressed(in) ==
    [ enter |-> in.enter, tab |-> in.tab, esc |-> in.esc,
      left |-> in.keyLeft, right |-> in.keyRight, up |-> in.keyUp, down |-> in.keyDown ]

\* MENU: KEY_RIGHT steps the class selection forward modulo classes.size(),
\* then KEY_LEFT steps it back and wraps below 0
SelectClass(sel, in) ==
    LET sel1 == IF in.keyRight THEN (sel + 1) % NumClasses ELSE sel
    IN  IF in.keyLeft THEN (IF sel1 - 1 < 0 THEN NumClasses - 1 ELSE sel1 - 1) ELSE sel1

\* faulty variant of SelectUpgrade: without if (shopSelection < 0) shopSelection = 2;
SelectUpgrade_NoWrapUp(sel, in) ==
    LET sel1 == IF in.keyDown THEN (IF sel + 1 > 2 THEN 0 ELSE sel + 1) ELSE sel
    IN  IF in.keyUp THEN sel1 - 1 ELSE sel1

\* SHOP: KEY_DOWN steps the shop selection forward and wraps above 2, then
\* KEY_UP steps it back and wraps below 0
SelectUpgrade(sel, in) ==
    LET sel1 == IF in.keyDown THEN (IF sel + 1 > 2 THEN 0 ELSE sel + 1) ELSE sel
    IN  IF in.keyUp THEN (IF sel1 - 1 < 0 THEN 2 ELSE sel1 - 1) ELSE sel1


\* ---------------------------------------------------------------------
\* Input plans
\* ---------------------------------------------------------------------
\* The program takes any key combination, frame time and random value in
\* every frame.  A run of the model follows a plan: a planned approach (one
\* input snapshot per frame) into the situation of interest, there a window
\* of at most MaxFree frames whose inputs are drawn from a set, and after
\* it at most MaxCoast frames without keys in which what the window started
\* plays out.  foe is the enemy type GetRandomValue(0, 2) draws in the run.

LiveBoss == {i \in 1..Len(enemies) : enemies[i].type = "BOSS" /\ enemies[i].alive}

LiveEnemies == {i \in 1..Len(enemies) : enemies[i].alive}

Keys == [NoKeys EXCEPT !.rndType = foe]

FreeKeys == [Keys EXCEPT !.free = TRUE]

\* the class a plan selects in the menu
PlanClass ==
    IF plan \in {"swing", "guard", "stutter", "rally", "farm", "shop", "corner"} THEN 0
    ELSE IF plan \in {"tour", "evade", "duel"} THEN 1
    ELSE 2

\* tour: a Rogue runs to the boss and kills it (VICTORY), restarts, runs to
\* the boss (one swing on the way) and stays under it (GAMEOVER), restarts,
\* and visits the shop.
TourPlay ==
    IF session = 0
    THEN (IF LiveBoss = {} THEN {[Keys EXCEPT !.right = TRUE, !.k = TRUE]}
          ELSE {[Keys EXCEPT !.j = TRUE]})
    ELSE IF session = 1
    THEN {[Keys EXCEPT !.right = TRUE, !.k = TRUE, !.j = gAttackCounter = 0]}
    ELSE IF budget > MaxCoast THEN {[FreeKeys EXCEPT !.tab = TRUE]}
    ELSE {}

\* keys that walk the player to a point, up to reach units short of it in x
Toward(pos, reach) ==
    [Keys EXCEPT !.right = pos.x > player.pos.x + Wu(reach),
                 !.left = pos.x < player.pos.x - Wu(reach),
                 !.down = pos.y > player.pos.y + Wu(4),
                 !.up = pos.y < player.pos.y - Wu(4)]

LooseCoins == {k \in 1..Len(coins) : ~coins[k].collected}

\* farm: a Knight goes for the enemies and swings all the time, picks up
\* their coins, buys the health upgrade once it can pay for it, and from
\* then on stands still until the enemies have brought it down (GAMEOVER).
FarmPlay ==
    IF player.healthLevel > 0 THEN {Keys}
    ELSE IF player.coins >= GetUpgradeCost(player, 1) THEN {[Keys EXCEPT !.tab = TRUE]}
    ELSE IF LooseCoins # {}
    THEN {[Toward(coins[CHOOSE k \in LooseCoins : \A m \in LooseCoins : k <= m].pos, 4)
             EXCEPT !.j = TRUE]}
    ELSE IF LiveEnemies # {}
    THEN {[Toward(enemies[CHOOSE i \in LiveEnemies : \A m \in LiveEnemies : i <= m].pos, FarmReach)
             EXCEPT !.j = TRUE]}
    ELSE {[Keys EXCEPT !.j = TRUE]}

\* shop: a Knight goes for the enemies and their coins as in farm until it
\* holds ShopCoins, stands until an enemy has hit it, opens the shop, is
\* free there for MaxFree frames (see ShopPad), and the run ends when it
\* has left the shop.
ShopPlay ==
    IF budget < MaxFree + MaxCoast THEN {}
    ELSE IF player.coins >= ShopCoins THEN {[Keys EXCEPT !.tab = player.hp < player.maxHP]}
    ELSE IF LooseCoins # {}
    THEN {[Toward(coins[CHOOSE k \in LooseCoins : \A m \in LooseCoins : k <= m].pos, 4)
             EXCEPT !.j = TRUE]}
    ELSE IF LiveEnemies # {}
    THEN {[Toward(enemies[CHOOSE i \in LiveEnemies : \A m \in LiveEnemies : i <= m].pos, FarmReach)
             EXCEPT !.j = TRUE]}
    ELSE {[Keys EXCEPT !.j = TRUE]}

\* corner: a Knight walks to the left end of the level (foe 0: and to the
\* top of the lane, foe 1: and to its bottom), lets the first enemy come up
\* to it, steps past the enemy and swings at it, until an enemy has been
\* knocked out of the level.
CornerPlay ==
    LET near == {i \in LiveEnemies : enemies[i].pos.x < player.pos.x + Wu(CornerReach)}
        behind == {i \in LiveEnemies : enemies[i].pos.x < player.pos.x}
        up == foe = 0 /\ player.pos.y > GROUND_TOP
        down == foe = 1 /\ player.pos.y < GROUND_BOTTOM
    IN  IF \E i \in 1..Len(enemies) : enemies[i].pos.x < 0 THEN {}
        ELSE IF behind # {} THEN {[Keys EXCEPT !.j = TRUE]}
        ELSE IF near # {} THEN {[Keys EXCEPT !.right = TRUE]}
        ELSE {[Keys EXCEPT !.left = player.pos.x > 0, !.up = up, !.down = down]}

\* siege: a Mage blinks and runs to the boss, faces it and shoots at it, and
\* blinks away from its windups, until one of the two is down.  The frames
\* that start with the hit-stop timer running are half as long.
SiegePlay ==
    LET dt == IF gHitStopTimer > 0 THEN MaxFrameTime \div 2 ELSE MaxFrameTime
    IN  IF LiveBoss = {} THEN {[Keys EXCEPT !.right = TRUE, !.k = TRUE, !.dt = dt]}
        ELSE LET b == enemies[CHOOSE i \in LiveBoss : TRUE]
             IN  {[Toward(b.pos, FarmReach) EXCEPT !.j = TRUE, !.k = b.windingUp, !.dt = dt]}

\* the approach of a plan, one snapshot per frame
\*   swing, guard, rally, evade, blink, volley: stand and let the first enemy come
\*   stutter: the same, in frames longer than the frame-time cap
\*   duel: run to the boss, bring it down to its last hits, then stand
Approach ==
    IF plan = "stutter" THEN {[Keys EXCEPT !.dt = Cs(8)]}
    ELSE IF plan = "duel"
    THEN (IF LiveBoss = {} THEN {[Keys EXCEPT !.right = TRUE, !.k = TRUE]}
          ELSE IF \E i \in LiveBoss : enemies[i].hp > DuelHP THEN {[Keys EXCEPT !.j = TRUE]}
          ELSE {Keys})
    ELSE {Keys}

\* the situation in which the window of a plan opens
Ready ==
    IF plan = "swing"
    THEN \E i \in LiveEnemies : Abs(enemies[i].pos.x - player.pos.x) < Wu(SwingRange)
    ELSE IF plan \in {"guard", "evade", "blink", "stutter", "rally"}
    THEN \E i \in LiveEnemies : enemies[i].windingUp
    ELSE IF plan = "volley"
    THEN LiveEnemies # {}
    ELSE IF plan = "duel"
    THEN /\ player.hp <= DuelHP + 5
         /\ \E i \in LiveBoss : enemies[i].windingUp /\ enemies[i].hp <= DuelHP
    ELSE FALSE

\* rally: a Knight stands in half-length frames and takes the hit of the
\* first enemy, and swings back in the frames that start with the hit-stop
\* timer running
Rally == {[FreeKeys EXCEPT !.j = gHitStopTimer > 0, !.dt = MaxFrameTime \div 2]}

\* the inputs of a frame in the window
Window ==
    IF plan = "swing" THEN {FreeKeys, [FreeKeys EXCEPT !.j = TRUE]}
    ELSE IF plan = "stutter"
    THEN {[FreeKeys EXCEPT !.j = TRUE], [FreeKeys EXCEPT !.j = TRUE, !.dt = MaxFrameTime \div 2]}
    ELSE IF plan = "rally" THEN Rally
    ELSE IF plan \in {"guard", "blink"}
    THEN {FreeKeys, [FreeKeys EXCEPT !.k = TRUE], [FreeKeys EXCEPT !.left = TRUE]}
    ELSE IF plan = "evade"
    THEN {FreeKeys, [FreeKeys EXCEPT !.k = TRUE], [FreeKeys EXCEPT !.left = TRUE, !.k = TRUE]}
    ELSE IF plan = "volley"
    THEN {[FreeKeys EXCEPT !.right = TRUE], [FreeKeys EXCEPT !.right = TRUE, !.j = TRUE]}
    ELSE IF plan = "duel"
    THEN {FreeKeys, [FreeKeys EXCEPT !.j = TRUE], [FreeKeys EXCEPT !.j = TRUE, !.tab = TRUE]}
    ELSE {}

\* the frames after the window: no keys (stutter keeps swinging, rally
\* keeps swinging back, guard keeps pressing block)
Coast ==
    IF plan = "stutter" THEN {[FreeKeys EXCEPT !.j = TRUE]}
    ELSE IF plan = "rally" THEN Rally
    ELSE IF plan = "guard" THEN {[FreeKeys EXCEPT !.k = TRUE]}
    ELSE {FreeKeys}

MenuPad ==
    IF plan = "shop" /\ selectedClassIndex = 0 /\ ~pressed.right
    THEN {[NoUiKeys EXCEPT !.keyLeft = TRUE]}
    ELSE IF selectedClassIndex = PlanClass THEN {[NoUiKeys EXCEPT !.enter = TRUE]}
    ELSE IF PlanClass = 2 THEN {[NoUiKeys EXCEPT !.keyLeft = TRUE]}
    ELSE {[NoUiKeys EXCEPT !.keyRight = TRUE]}

PlayPad ==
    IF plan = "tour" THEN TourPlay
    ELSE IF session > 0 \/ budget <= 0 THEN {}
    ELSE IF plan = "farm" THEN FarmPlay
    ELSE IF plan = "shop" THEN ShopPlay
    ELSE IF plan = "corner" THEN CornerPlay
    ELSE IF plan = "siege" THEN SiegePlay
    ELSE IF budget <= MaxCoast THEN Coast
    ELSE IF budget = MaxFree + MaxCoast /\ ~Ready THEN Approach
    ELSE Window

ShopPad ==
    IF plan = "tour" THEN {[NoUiKeys EXCEPT !.enter = TRUE, !.keyDown = TRUE, !.tab = TRUE]}
    ELSE IF plan = "farm" /\ player.healthLevel = 0
    THEN {[NoUiKeys EXCEPT !.keyDown = TRUE, !.enter = TRUE]}
    ELSE IF plan = "shop" /\ budget > MaxCoast
    THEN {[NoUiKeys EXCEPT !.free = TRUE, !.keyDown = TRUE],
          [NoUiKeys EXCEPT !.free = TRUE, !.keyUp = TRUE],
          [NoUiKeys EXCEPT !.free = TRUE, !.enter = TRUE],
          [NoUiKeys EXCEPT !.free = TRUE, !.esc = TRUE]}
    ELSE {[NoUiKeys EXCEPT !.esc = TRUE]}

EndPad == {[NoUiKeys EXCEPT !.enter = TRUE]}

\* ---------------------------------------------------------------------
\* The frame, by phase
\* ---------------------------------------------------------------------

\* The history of a session: clock is the simulation time (the sum of the
\* frames' gameDt) since ResetGame; use[a] and prevUse[a] are the clock
\* values at the end of the last two frames that activated ability a; for
\* the enemy at index i, wind[i] holds the clock at the start and at the end
\* of the frame of its last windup entry, whether its rectangle overlapped
\* the player's when it entered, and the clock at the end of the frames of its
\* last two windup expiries and of its last two attacks that took HP;
\* press is the clock at the end of the frame of the last accepted attack
\* press; cast[k] is the clock at the start of the frame that made the
\* projectile at index k; frozen is the real frame time of the PLAYING
\* frames without simulation time (gameDt = 0) that have followed one
\* another up to the last frame; pressStep is the combo step the last
\* accepted attack press set.  -1 stands for "not yet".
NewChron ==
    [ clock |-> 0,
      frozen |-> 0,
      pressStep |-> 0,
      press |-> -1,
      cast |-> << >>,
      use |-> [a \in {"block", "dodge", "blink"} |-> -1],
      prevUse |-> [a \in {"block", "dodge", "blink"} |-> -1],
      wind |-> << >> ]

NoWind ==
    [ entry |-> -1, entryEnd |-> -1, onPlayer |-> FALSE, expiry |-> -1, prevExpiry |-> -1,
      hit |-> -1, prevHit |-> -1 ]

ChronAfter(c, evs, gameDt, n) ==
    LET now == c.clock + gameDt
        Of(kind) == {evs[j] : j \in {k \in 1..Len(evs) : evs[k].kind = kind}}
        used == {ev.name : ev \in Of("ability")}
        Wind(i) ==
            LET r0 == IF i <= Len(c.wind) THEN c.wind[i] ELSE NoWind
                r1 == IF \E ev \in Of("windup") : ev.e = i
                      THEN [r0 EXCEPT !.entry = c.clock, !.entryEnd = now,
                                      !.onPlayer = \A ev \in Of("windup") : ev.e = i =>
                                                      RectOverlap(MakeRect(ev.enemy.pos, ev.enemy.size),
                                                                  MakeRect(ev.player.pos, PlayerSize))]
                      ELSE r0
                r2 == IF \E ev \in Of("enemyAttack") : ev.e = i
                      THEN [r1 EXCEPT !.prevExpiry = r0.expiry, !.expiry = now]
                      ELSE r1
            IN  IF \E ev \in Of("enemyAttack") : ev.e = i /\ ev.hpAfter < ev.hpBefore
                THEN [r2 EXCEPT !.prevHit = r0.hit, !.hit = now]
                ELSE r2
    IN  [ clock |-> now,
          frozen |-> IF gameDt = 0 THEN c.frozen + evs[1].realDt ELSE 0,
          press |-> IF Of("swing") \cup Of("cast") # {} THEN now ELSE c.press,
          pressStep |-> IF Of("swing") \cup Of("cast") # {}
                        THEN (CHOOSE ev \in Of("swing") \cup Of("cast") : TRUE).to
                        ELSE c.pressStep,
          cast |-> IF Of("cast") # {} THEN Append(c.cast, c.clock) ELSE c.cast,
          use |-> [a \in DOMAIN c.use |-> IF a \in used THEN now ELSE c.use[a]],
          prevUse |-> [a \in DOMAIN c.use |-> IF a \in used THEN c.use[a] ELSE c.prevUse[a]],
          wind |-> [i \in 1..n |-> Wind(i)] ]

\* faulty variant of ResetGame: the boss flags are left
ResetGame_KeepBoss(idx) ==
    /\ playerClass' = classes[idx + 1].type
    /\ player' = ResetPlayer(player, classes[idx + 1])
    /\ enemies' = << >>
    /\ coins' = << >>
    /\ projectiles' = << >>
    /\ UNCHANGED << bossSpawned, bossDefeated >>
    /\ enemySpawnTimer' = 0
    /\ gHitStopTimer' = 0
    /\ gAttackCounter' = 0
    /\ gProjectileCounter' = 0
    /\ applied' = {}
    /\ chron' = NewChron

ResetGame(idx) ==
    /\ playerClass' = classes[idx + 1].type
    /\ player' = ResetPlayer(player, classes[idx + 1])
    /\ enemies' = << >>
    /\ coins' = << >>
    /\ projectiles' = << >>
    /\ bossSpawned' = FALSE
    /\ bossDefeated' = FALSE
    /\ enemySpawnTimer' = 0
    /\ gHitStopTimer' = 0
    /\ gAttackCounter' = 0
    /\ gProjectileCounter' = 0
    /\ applied' = {}
    /\ chron' = NewChron

KeepSession ==
    UNCHANGED << playerClass, player, enemies, coins, projectiles, bossSpawned, bossDefeated,
                 enemySpawnTimer, gAttackCounter, gProjectileCounter, applied, chron >>

MenuUpdate ==
    /\ state = "MENU"
    /\ \E in \in MenuPad :
         LET sel2 == SelectClass(selectedClassIndex, in)
         IN  /\ selectedClassIndex' = sel2
             /\ IF in.enter
                THEN ResetGame(sel2) /\ state' = "PLAYING"
                ELSE /\ KeepSession
                     /\ gHitStopTimer' = HitStopAfter(gHitStopTimer, RealDt(in.dt))
                     /\ state' = state
             /\ budget' = IF in.free THEN budget - 1 ELSE budget
             /\ pressed' = UiPressed(in)
    /\ events' = << >>
    /\ UNCHANGED << shopSelection, issued, plan, foe, session >>

PlayingUpdate ==
    /\ state = "PLAYING"
    /\ \E in \in PlayPad :
         LET realDt == RealDt(in.dt)
             hs == HitStopAfter(gHitStopTimer, realDt)
             gameDt == GameDt(hs, realDt)
             frame == [kind |-> "frame", e |-> 0, in |-> in, realDt |-> realDt,
                       hs |-> hs, gameDt |-> gameDt]
         IN  \E w \in {PlayingFrame([World EXCEPT !.gHitStopTimer = hs, !.events = << frame >>],
                                    in, gameDt)} :
             /\ Len(w.enemies) <= MaxEnemies
             /\ Len(w.projectiles) <= MaxProjectiles
             /\ state' = w.state
             /\ player' = w.player
             /\ enemies' = w.enemies
             /\ coins' = w.coins
             /\ projectiles' = w.projectiles
             /\ bossSpawned' = w.bossSpawned
             /\ bossDefeated' = w.bossDefeated
             /\ enemySpawnTimer' = w.enemySpawnTimer
             /\ gHitStopTimer' = w.gHitStopTimer
             /\ gAttackCounter' = w.gAttackCounter
             /\ gProjectileCounter' = w.gProjectileCounter
             /\ events' = w.events
             /\ pressed' = [UiPressed(NoUiKeys) EXCEPT !.tab = in.tab]
             /\ applied' = w.applied
             /\ issued' = w.issued
             /\ chron' = ChronAfter(chron, w.events, gameDt, Len(w.enemies))
             /\ budget' = IF in.free THEN budget - 1 ELSE budget
    /\ UNCHANGED << selectedClassIndex, playerClass, shopSelection, plan, foe, session >>

\* faulty variant of ShopUpdate: the spawn timer runs on in the shop
ShopUpdate_SpawnTimerRuns ==
    /\ state = "SHOP"
    /\ \E in \in ShopPad :
         LET sel2 == SelectUpgrade(shopSelection, in)
         IN  /\ shopSelection' = sel2
             /\ player' = IF in.enter THEN Purchase(player, sel2) ELSE player
             /\ events' = IF in.enter
                          THEN << [kind |-> "buy", e |-> 0, index |-> sel2, before |-> player] >>
                          ELSE << >>
             /\ state' = IF in.tab \/ in.esc THEN "PLAYING" ELSE state
             /\ gHitStopTimer' = HitStopAfter(gHitStopTimer, RealDt(in.dt))
             /\ enemySpawnTimer' = enemySpawnTimer + RealDt(in.dt)
             /\ budget' = IF in.free THEN budget - 1 ELSE budget
             /\ pressed' = UiPressed(in)
    /\ UNCHANGED << selectedClassIndex, playerClass, enemies, coins, projectiles, bossSpawned,
                    bossDefeated, gAttackCounter, gProjectileCounter,
                    applied, issued, chron, plan, foe, session >>

ShopUpdate ==
    /\ state = "SHOP"
    /\ \E in \in ShopPad :
         LET sel2 == SelectUpgrade(shopSelection, in)
         IN  /\ shopSelection' = sel2
             /\ player' = IF in.enter THEN Purchase(player, sel2) ELSE player
             /\ events' = IF in.enter
                          THEN << [kind |-> "buy", e |-> 0, index |-> sel2, before |-> player] >>
                          ELSE << >>
             /\ state' = IF in.tab \/ in.esc THEN "PLAYING" ELSE state
             /\ gHitStopTimer' = HitStopAfter(gHitStopTimer, RealDt(in.dt))
             /\ budget' = IF in.free THEN budget - 1 ELSE budget
             /\ pressed' = UiPressed(in)
    /\ UNCHANGED << selectedClassIndex, playerClass, enemies, coins, projectiles, bossSpawned,
                    bossDefeated, enemySpawnTimer, gAttackCounter, gProjectileCounter,
                    applied, issued, chron, plan, foe, session >>

GameOverUpdate ==
    /\ state = "GAMEOVER"
    /\ \E in \in EndPad :
         /\ IF in.enter
            THEN ResetGame(selectedClassIndex) /\ state' = "PLAYING" /\ session' = session + 1
            ELSE /\ KeepSession
                 /\ gHitStopTimer' = HitStopAfter(gHitStopTimer, RealDt(in.dt))
                 /\ UNCHANGED << state, session >>
         /\ budget' = IF in.free THEN budget - 1 ELSE budget
         /\ pressed' = UiPressed(in)
    /\ events' = << >>
    /\ UNCHANGED << selectedClassIndex, shopSelection, issued, plan, foe >>

\* faulty variant of VictoryUpdate: ENTER leads back to the menu
VictoryUpdate_ToMenu ==
    /\ state = "VICTORY"
    /\ \E in \in EndPad :
         /\ IF in.enter
            THEN ResetGame(selectedClassIndex) /\ state' = "MENU" /\ session' = session + 1
            ELSE /\ KeepSession
                 /\ gHitStopTimer' = HitStopAfter(gHitStopTimer, RealDt(in.dt))
                 /\ UNCHANGED << state, session >>
         /\ budget' = IF in.free THEN budget - 1 ELSE budget
         /\ pressed' = UiPressed(in)
    /\ events' = << >>
    /\ UNCHANGED << selectedClassIndex, shopSelection, issued, plan, foe >>

VictoryUpdate ==
    /\ state = "VICTORY"
    /\ \E in \in EndPad :
         /\ IF in.enter
            THEN ResetGame(selectedClassIndex) /\ state' = "PLAYING" /\ session' = session + 1
            ELSE /\ KeepSession
                 /\ gHitStopTimer' = HitStopAfter(gHitStopTimer, RealDt(in.dt))
                 /\ UNCHANGED << state, session >>
         /\ budget' = IF in.free THEN budget - 1 ELSE budget
         /\ pressed' = UiPressed(in)
    /\ events' = << >>
    /\ UNCHANGED << selectedClassIndex, shopSelection, issued, plan, foe >>

\* main() up to the game loop: state = MENU, selectedClassIndex = 0, ResetGame()
InitProgram ==
    /\ state = "MENU"
    /\ selectedClassIndex = 0
    /\ playerClass = "KNIGHT"
    /\ player = ResetPlayer(NewPlayer, classes[1])
    /\ enemies = << >>
    /\ coins = << >>
    /\ projectiles = << >>
    /\ bossSpawned = FALSE
    /\ bossDefeated = FALSE
    /\ enemySpawnTimer = 0
    /\ shopSelection = 0
    /\ gHitStopTimer = 0
    /\ gAttackCounter = 0
    /\ gProjectileCounter = 0
    /\ events = << >>
    /\ applied = {}
    /\ pressed = UiPressed(NoUiKeys)
    /\ issued = {}
    /\ chron = NewChron
    /\ session = 0
    /\ budget = MaxFree + MaxCoast

Next ==
    \/ MenuUpdate
    \/ PlayingUpdate
    \/ ShopUpdate
    \/ GameOverUpdate
    \/ VictoryUpdate

Plans ==
    {"tour", "farm", "shop", "corner", "siege", "swing", "stutter", "rally", "guard", "evade", "blink",
     "volley", "duel"}

Init ==
    /\ InitProgram
    /\ plan \in Plans
    /\ foe \in (IF plan \in {"tour", "duel", "siege"} THEN {0} ELSE IF plan \in {"farm", "shop"} THEN {2} ELSE 0..2)

Spec == Init /\ [][Next]_vars

\* ---------------------------------------------------------------------
\* Properties
\* ---------------------------------------------------------------------

\* the events of one kind among those of the last frame
EventsOf(kind) == {events[j] : j \in {k \in 1..Len(events) : events[k].kind = kind}}

EnemyRect(e) == MakeRect(e.pos, e.size)

MeleeClass == playerClass = "KNIGHT" \/ playerClass = "ROGUE"

\* C1: a projectile instance takes its damage off an enemy's HP at most
\* once, also when two or more projectiles are active and overlap the enemy
\* in the same or in alternating frames: no projectile hit of a frame is on
\* an (enemy, projectile id) pair that was already damaged in the session.
C1_ProjectileOncePerEnemy ==
    \A ev \in EventsOf("proj") : ~ev.repeat

\* d is base * multiplier / 10 rounded to the nearest, halves away from zero
C2_IsRounded(d, base, mult) ==
    10 * d - base * mult > -5 /\ 10 * d - base * mult <= 5

\* C2: every living enemy the hitbox of a melee attack instance overlaps
\* has its HP reduced exactly once by round(baseDamage * multiplier(class,
\* comboStep)), however many frames (hit-stop frames included) the overlap
\* lasts: no melee hit is on an (enemy, attack id) pair already damaged,
\* each hit takes the rounded product, and while the swing is active every
\* living enemy inside its hitbox carries the id and has been damaged by it.
\* A Knight with base damage 20 at combo step 3 takes 40.
C2_MeleeOncePerAttack ==
    /\ \A ev \in EventsOf("melee") :
         /\ ~ev.repeat
         /\ C2_IsRounded(ev.hpBefore - ev.hpAfter, ev.baseDamage,
                         GetComboMultiplier(playerClass, ev.step))
         /\ (playerClass = "KNIGHT" /\ ev.baseDamage = 20 /\ ev.step = 3)
              => ev.hpAfter = ev.hpBefore - 40
    /\ (MeleeClass /\ player.attacking) =>
         \A i \in 1..Len(enemies) :
            (enemies[i].alive /\ RectOverlap(player.attackHitbox, EnemyRect(enemies[i])))
              => /\ enemies[i].lastHitAttackId = player.currentAttackId
                 /\ << "melee", i, player.currentAttackId >> \in applied

\* a frame without simulation time (hit stop) in which a living enemy is
\* still inside the hitbox of the swing that damaged it, and is not damaged
C2_OverlapLasts ==
    /\ state = "PLAYING" /\ MeleeClass /\ player.attacking
    /\ gHitStopTimer > 0
    /\ EventsOf("melee") = {}
    /\ \E i \in 1..Len(enemies) :
         /\ enemies[i].alive
         /\ RectOverlap(player.attackHitbox, EnemyRect(enemies[i]))
         /\ << "melee", i, player.currentAttackId >> \in applied

\* the coin burst of an enemy type
C3_Burst(type) ==
    IF type = "BOSS" THEN 10 ELSE IF type = "TANK" THEN 3 ELSE 1

\* the enemies that die in the step: alive (or not yet there) before, dead after
C3_Dying == {i \in 1..Len(enemies') :
               (i > Len(enemies) \/ enemies[i].alive) /\ ~enemies'[i].alive}

RECURSIVE C3_Coins(_)
C3_Coins(S) ==
    IF S = {} THEN 0
    ELSE LET i == CHOOSE x \in S : TRUE
         IN  C3_Burst(enemies'[i].type) + C3_Coins(S \ {i})

C3_Frame ==
    (state = "PLAYING") =>
       /\ Len(enemies') >= Len(enemies)
       /\ \A i \in 1..Len(enemies) :
            ~enemies[i].alive =>
               /\ enemies'[i] = enemies[i]
               /\ \A j \in 1..Len(events') : events'[j].e # i
       /\ \A i \in 1..Len(enemies') :
            Cardinality({j \in 1..Len(events') :
                           events'[j].kind = "death" /\ events'[j].e = i})
              = IF i \in C3_Dying THEN 1 ELSE 0
       /\ Len(coins') = Len(coins) + C3_Coins(C3_Dying)
       /\ (state' = "VICTORY") => \E i \in C3_Dying : enemies'[i].type = "BOSS"

\* C3: an enemy dies at most once.  The frame that brings its HP to 0 or
\* below sets alive = false and adds its coin burst (1 Grunt / Fast, 3 Tank,
\* 10 Boss) once; a dead enemy is inert: its record (HP, position, gating
\* ids) never changes again, no hit, attack or death of a later frame is
\* its, and the coins and the VICTORY of a frame come from the enemies that
\* die in that frame.
C3_DiesOnce ==
    /\ [](\A i \in 1..Len(enemies) : enemies[i].alive <=> enemies[i].hp > 0)
    /\ [][C3_Frame]_vars

\* a dead enemy lies inside the hitbox of an active swing whose id it does
\* not carry
C3_DeadInHitbox ==
    /\ state = "PLAYING" /\ MeleeClass /\ player.attacking
    /\ \E i \in 1..Len(enemies) :
         /\ ~enemies[i].alive
         /\ enemies[i].type = "TANK"
         /\ RectOverlap(player.attackHitbox, EnemyRect(enemies[i]))
         /\ enemies[i].lastHitAttackId # player.currentAttackId

\* C4: in every reachable state 0 <= player.hp <= player.maxHP.
C4_HpInRange ==
    0 <= player.hp /\ player.hp <= player.maxHP

\* after a max-HP purchase, an enemy hit larger than the HP left has
\* brought the HP to 0
C4_CappedHit ==
    /\ player.healthLevel > 0
    /\ player.hp = 0
    /\ \E ev \in EventsOf("enemyAttack") : ev.hpBefore > 0 /\ ev.hpBefore < 13 /\ ev.hpAfter = 0

BossDeaths == {ev \in EventsOf("death") : ev.type = "BOSS"}

\* C5 as stated: the frame that brings the boss's HP to 0 or below ends in
\* the phase VICTORY.
C5_BossDeathGivesVictory ==
    BossDeaths # {} => state = "VICTORY"

\* C5, amended: the frame that brings the boss's HP to 0 or below ends in
\* VICTORY if the player's HP is above 0 at its end and in GAMEOVER if it is
\* 0; PLAYING -> VICTORY happens in the frame that sets bossDefeated, which
\* stays set until the restart, so at most once in a session.
C5_VictoryUnlessDead ==
    /\ [](BossDeaths # {} => state = IF player.hp > 0 THEN "VICTORY" ELSE "GAMEOVER")
    /\ [][(state = "PLAYING" /\ state' = "VICTORY") => (~bossDefeated /\ bossDefeated')]_vars
    /\ [][(bossDefeated /\ ~bossDefeated') => session' = session + 1]_vars

\* the boss has died in the last frame and the phase is VICTORY
C5_BossDown ==
    BossDeaths # {} /\ state = "VICTORY" /\ bossDefeated

\* C6: the phase is GAMEOVER exactly when the player's HP is 0 (the check
\* at the end of a PLAYING frame overrides a shop-open input and a boss
\* death of the same frame), so HP > 0 in every PLAYING and SHOP state.
C6_GameOverIffDead ==
    /\ (state = "GAMEOVER") <=> (player.hp = 0)
    /\ (state \in {"PLAYING", "SHOP"}) => player.hp > 0

\* the boss died or the shop key was pressed in the frame that ended in
\* GAMEOVER
C6_Overridden ==
    state = "GAMEOVER" /\ player.hp = 0 /\ BossDeaths # {} /\ pressed.tab

PhaseChanges ==
    { << "MENU", "PLAYING" >>, << "PLAYING", "SHOP" >>, << "SHOP", "PLAYING" >>,
      << "PLAYING", "GAMEOVER" >>, << "PLAYING", "VICTORY" >>,
      << "GAMEOVER", "PLAYING" >>, << "VICTORY", "PLAYING" >> }

\* C7: the phase changes between consecutive frames are MENU -> PLAYING
\* (confirm), PLAYING -> SHOP (open-shop), SHOP -> PLAYING (open-shop or
\* cancel), PLAYING -> GAMEOVER, PLAYING -> VICTORY, GAMEOVER -> PLAYING
\* (confirm) and VICTORY -> PLAYING (confirm) and no other: MENU is never
\* entered, SHOP only from PLAYING.
C7_PhaseChanges ==
    [][ state' # state =>
          /\ << state, state' >> \in PhaseChanges
          /\ (state \in {"MENU", "GAMEOVER", "VICTORY"}) => pressed'.enter
          /\ (state = "PLAYING" /\ state' = "SHOP") => pressed'.tab
          /\ (state = "SHOP") => (pressed'.tab \/ pressed'.esc) ]_vars

\* the shop, opened in the third session: after a victory and a defeat
C7_AllChanges ==
    state = "SHOP" /\ session = 2

\* the session as ResetGame leaves it
SessionReset ==
    LET cc == classes[selectedClassIndex + 1]
    IN  /\ player.hp = cc.maxHP /\ player.maxHP = cc.maxHP
        /\ player.coins = 0
        /\ player.damageLevel = 0 /\ player.healthLevel = 0 /\ player.speedLevel = 0
        /\ player.speed = cc.speed /\ player.baseDamage = cc.baseDamage
        /\ player.comboStep = 0 /\ ~player.attacking
        /\ ~player.blocking /\ ~player.dodging /\ ~player.invincible
        /\ enemies = << >> /\ projectiles = << >> /\ coins = << >>
        /\ ~bossSpawned /\ ~bossDefeated

\* C8: every transition into PLAYING from MENU, GAMEOVER or VICTORY leaves
\* the session reset: HP = maxHP = the selected class's, no currency, no
\* upgrade level, class speed and base damage, combo step 0, not attacking,
\* no ability active, no enemy, projectile or coin, boss flags false.
C8_RestartResets ==
    [][ (state \in {"MENU", "GAMEOVER", "VICTORY"} /\ state' = "PLAYING")
          => SessionReset' ]_vars

\* the first frame state of a second session of a Knight (the first one
\* ended with an upgrade bought and currency left)
C8_Restarted ==
    state = "PLAYING" /\ session = 1 /\ playerClass = "KNIGHT" /\ pressed.enter /\ SessionReset

\* the damage of an enemy type
C9_Damage(type) ==
    IF type = "GRUNT" THEN 6 ELSE IF type = "FAST" THEN 8
    ELSE IF type = "TANK" THEN 13 ELSE 20

\* C9: when an enemy's windup expires while it overlaps the player, the HP
\* taken from the player is 0 if the player is invincible, floor(d / 3) if
\* not invincible and a Knight block is active, d otherwise (d = 6 / 8 / 13
\* / 20 for Grunt / Fast / Tank / Boss), and no more than the HP left.
C9_DamageToPlayer ==
    \A ev \in EventsOf("enemyAttack") :
       ev.overlap =>
          LET d == C9_Damage(ev.type)
              x == IF ev.invincible THEN 0
                   ELSE IF ev.blocking /\ playerClass = "KNIGHT" THEN d \div 3
                   ELSE d
          IN  /\ ev.hpBefore - ev.hpAfter = Min2(x, ev.hpBefore)
              /\ ev.hpAfter >= 0

\* a blocking Knight has taken floor(13 / 3) = 4 from a Tank
C9_BlockedTank ==
    \E ev \in EventsOf("enemyAttack") :
       /\ ev.type = "TANK" /\ ev.overlap /\ ev.blocking /\ ~ev.invincible
       /\ ev.hpBefore - ev.hpAfter = 4

\* C10: whenever an enemy's windup timer expires (the player overlapping or
\* not; the damage full, blocked or negated), in that same frame the enemy
\* leaves windup, is in the attack animation, whose 0.22 s have started,
\* and has its attack cooldown at 1.1 s.
C10_AttackCompletes ==
    \A ev \in EventsOf("enemyAttack") :
       /\ ~enemies[ev.e].windingUp
       /\ enemies[ev.e].attackingAnim
       /\ enemies[ev.e].attackAnimTimer = Cs(22) - ev.gameDt
       /\ enemies[ev.e].attackCooldown = Cs(110)

\* a dodging Rogue has let an overlapping enemy's attack pass: no damage,
\* the enemy in its attack animation and on cooldown
C10_DodgedAttack ==
    /\ playerClass = "ROGUE" /\ player.dodging
    /\ \E ev \in EventsOf("enemyAttack") :
         /\ ev.overlap /\ ev.invincible /\ ev.hpAfter = ev.hpBefore
         /\ enemies[ev.e].attackingAnim /\ enemies[ev.e].attackCooldown = Cs(110)

\* C11: the attack-instance id issued to a melee swing is strictly greater
\* than every id issued earlier in the process, the ids issued before a
\* restart (ResetGame) included, so no attack-instance id is issued twice
\* in the lifetime of the process.
C11_IdsNeverReused ==
    \A ev \in EventsOf("swing") : \A x \in ev.earlier : x < ev.id

\* C12: every enemy's HP is >= 0 in every reachable state (the damage of a
\* melee hit or a projectile hit that would take it below zero is clamped).
C12_EnemyHpNotNegative ==
    \A i \in 1..Len(enemies) : enemies[i].hp >= 0

\* the level of upgrade track i (0 damage, 1 max HP, 2 speed) of a player
TrackLevel(p, i) ==
    IF i = 0 THEN p.damageLevel ELSE IF i = 1 THEN p.healthLevel ELSE p.speedLevel

\* what track i costs a player, as the claims state it
TrackCost(p, i) == 5 * (1 + TrackLevel(p, i))

\* the purchase attempts of the last frame that were paid for
Bought == {ev \in EventsOf("buy") : ev.before.coins >= TrackCost(ev.before, ev.index)}

\* C13: a purchase attempt succeeds only if currency >= the cost of the
\* selected track.  On failure the player (currency, levels, stats) is
\* unchanged; on success currency drops by exactly the cost, exactly the
\* selected track's level rises by 1 and only that track's stat changes
\* (damage +3, max HP +15, speed +20); a SHOP frame without an attempt
\* leaves the player as it is; currency is never negative.
C13_PurchaseNeedsFunds ==
    /\ [](player.coins >= 0)
    /\ [](\A ev \in EventsOf("buy") :
            LET b == ev.before
                on(i) == IF ev.index = i THEN 1 ELSE 0
            IN  IF ev \notin Bought THEN player = b
                ELSE /\ player.coins = b.coins - TrackCost(b, ev.index)
                     /\ \A i \in 0..2 : TrackLevel(player, i) = TrackLevel(b, i) + on(i)
                     /\ player.baseDamage = b.baseDamage + 3 * on(0)
                     /\ player.maxHP = b.maxHP + 15 * on(1)
                     /\ player.speed = b.speed + 20 * on(2)
                     /\ ev.index # 1 => player.hp = b.hp
                     /\ [player EXCEPT !.coins = b.coins, !.hp = b.hp,
                                       !.damageLevel = b.damageLevel,
                                       !.healthLevel = b.healthLevel,
                                       !.speedLevel = b.speedLevel,
                                       !.baseDamage = b.baseDamage,
                                       !.maxHP = b.maxHP, !.speed = b.speed] = b)
    /\ [][(state = "SHOP" /\ EventsOf("buy")' = {}) => player' = player]_vars

\* an attempt is refused with currency left: two tracks are at level 1, 5
\* coins are left and the selected track costs 10
C13_Refused ==
    \E ev \in EventsOf("buy") :
       /\ ev.before.coins = 5 /\ TrackLevel(ev.before, ev.index) = 1
       /\ player = ev.before /\ state = "SHOP"

\* C14: track i at level L costs baseCost[i] x (1 + L) with base cost 5:
\* a purchase is paid with that amount, after it the track costs strictly
\* more than was paid, and the cost of the other tracks is as before.
C14_CostByLevel ==
    /\ \A i \in 0..2 : GetUpgradeCost(player, i) = 5 * (1 + TrackLevel(player, i))
    /\ \A ev \in Bought :
          LET paid == ev.before.coins - player.coins
          IN  /\ paid = 5 * (1 + TrackLevel(ev.before, ev.index))
              /\ GetUpgradeCost(player, ev.index) > paid
              /\ \A i \in 0..2 \ {ev.index} :
                    GetUpgradeCost(player, i) = GetUpgradeCost(ev.before, i)

\* the second level of a track has been bought for 10 after the first for 5
C14_SecondLevel ==
    \E ev \in Bought :
       /\ TrackLevel(ev.before, ev.index) = 1 /\ TrackLevel(player, ev.index) = 2
       /\ ev.before.coins - player.coins = 10

\* C15: a successful max-HP purchase made while HP < maxHP leaves HP equal
\* to the new maxHP, old maxHP + 15; a damage or speed purchase leaves HP
\* and maxHP unchanged.
C15_MaxHpPurchaseHeals ==
    \A ev \in Bought :
       IF ev.index = 1
       THEN /\ player.maxHP = ev.before.maxHP + 15
            /\ player.hp = player.maxHP
       ELSE /\ player.hp = ev.before.hp
            /\ player.maxHP = ev.before.maxHP

\* a wounded Knight (HP below maxHP) has bought max HP and is at full HP
C15_HealedByPurchase ==
    \E ev \in Bought :
       /\ ev.index = 1 /\ ev.before.hp < ev.before.maxHP
       /\ player.hp = ev.before.maxHP + 15

\* the step is a PLAYING frame whose hit-stop timer is positive after the
\* decrement at the start of the frame
HitStopFrame ==
    state = "PLAYING" /\ \E f \in EventsOf("frame")' : f.hs > 0

\* the step is a frame in which the Mage blinks
BlinkFrame ==
    /\ playerClass = "MAGE" /\ player.blinkCooldownTimer <= 0
    /\ \E f \in EventsOf("frame")' : f.in.k

\* C16: in every frame in which the hit-stop timer is still positive after
\* its decrement the simulation delta is 0: the player's position changes
\* by a blink only, an enemy's position by the knockback of a melee hit
\* only, no enemy windup expires or loses time, and no projectile moves,
\* loses lifetime or goes inactive.
C16_HitStopFreezes ==
    [][ HitStopFrame =>
          /\ \A f \in EventsOf("frame")' : f.gameDt = 0
          /\ BlinkFrame \/ player'.pos = player.pos
          /\ \A i \in 1..Len(enemies) :
                /\ \/ enemies'[i].pos = enemies[i].pos
                   \/ \E ev \in EventsOf("melee")' : ev.e = i
                /\ enemies[i].windingUp =>
                      /\ enemies'[i].windingUp
                      /\ enemies'[i].windupTimer = enemies[i].windupTimer
          /\ EventsOf("enemyAttack")' = {}
          /\ \A k \in 1..Len(projectiles) : projectiles'[k] = projectiles[k] ]_vars

\* a hit-stop frame in which a move key is held while a living enemy is in
\* its windup
C16_FrozenFrame ==
    /\ state = "PLAYING"
    /\ \E f \in EventsOf("frame") : f.hs > 0 /\ f.gameDt = 0 /\ (f.in.left \/ f.in.right)
    /\ \E i \in 1..Len(enemies) : enemies[i].alive /\ enemies[i].windingUp

\* the step starts the Rogue's dodge or the Mage's blink
EvasionStarts ==
    \/ player.dodgeCooldownTimer <= 0 /\ player'.dodgeCooldownTimer > 0
    \/ player.blinkCooldownTimer <= 0 /\ player'.blinkCooldownTimer > 0

\* C17: while hit stop is active real time goes on draining the player's
\* timers: in a hit-stop frame a running block, dodge or blink cooldown
\* timer and a running invincibility timer are lower after the frame than
\* before it.
C17_CooldownsDrain ==
    [][ HitStopFrame =>
          /\ player.blockCooldownTimer > 0
                => player'.blockCooldownTimer < player.blockCooldownTimer
          /\ player.dodgeCooldownTimer > 0
                => player'.dodgeCooldownTimer < player.dodgeCooldownTimer
          /\ player.blinkCooldownTimer > 0
                => player'.blinkCooldownTimer < player.blinkCooldownTimer
          /\ (player.invincibleTimer > 0 /\ ~EvasionStarts)
                => player'.invincibleTimer < player.invincibleTimer ]_vars

\* a position is inside the lane
InLane(pos) ==
    /\ 0 <= pos.x /\ pos.x <= LEVEL_LENGTH
    /\ GROUND_TOP <= pos.y /\ pos.y <= GROUND_BOTTOM

\* C18: in every reachable state the player's position satisfies
\* 0 <= x <= LEVEL_LENGTH and GROUND_TOP <= y <= GROUND_BOTTOM, after any
\* sequence of walking, dodging and blinking.
C18_PlayerInLane ==
    InLane(player.pos)

\* the Mage has blinked to the left less than 150 units from the left end
\* of the level and stands at x = 0
C18_BlinkClamped ==
    /\ state = "PLAYING" /\ playerClass = "MAGE"
    /\ player.blinkCooldownTimer = player.blinkCooldown
    /\ ~player.facingRight /\ player.pos.x = 0

\* C19: in every reachable state every enemy's position satisfies
\* 0 <= x <= LEVEL_LENGTH and GROUND_TOP <= y <= GROUND_BOTTOM, after any
\* sequence of spawning, approach movement and melee knockback.
C19_EnemiesInLane ==
    \A i \in 1..Len(enemies) : InLane(enemies[i].pos)

\* C20: a projectile hit changes only the struck enemy's HP, its
\* last-projectile id and, on death, its alive flag (with the coins and
\* the phase): after the frame of a hit the hit-stop timer is what it was
\* before the hit, the enemy is where it was and, HP, id and alive flag
\* apart, as it was, and the projectile is as it was before the hit:
\* active, with its position, velocity, lifetime, radius and damage.
C20_ProjectileHitOnly ==
    \A ev \in EventsOf("proj") :
       LET e == enemies[ev.e]
           q == projectiles[ev.k]
       IN  /\ gHitStopTimer = ev.hitStop
           /\ e.pos = ev.enemy.pos
           /\ [e EXCEPT !.hp = ev.enemy.hp,
                        !.lastProjectileHitId = ev.enemy.lastProjectileHitId,
                        !.alive = ev.enemy.alive] = ev.enemy
           /\ e.alive <=> e.hp > 0
           /\ q.active /\ q.vel = ev.projectile.vel /\ q.life = ev.projectile.life
           /\ q = ev.projectile

\* a projectile that has damaged one enemy damages another one
C20_Pierced ==
    \E ev \in EventsOf("proj") :
       /\ ~ev.repeat
       /\ projectiles[ev.k].active
       /\ \E j \in 1..Len(enemies) :
             j # ev.e /\ << "proj", j, ev.id >> \in applied

\* a step of the model that is one PLAYING frame (its first event is the
\* frame's record of input and time)
Played == state = "PLAYING" /\ events' # << >> /\ events'[1].kind = "frame"

\* C21: the combo step is always one of 0..3; a press of attack accepted
\* (no attack in progress) takes it 0 -> 1 -> 2 -> 3 -> 1, and from 0 when
\* the combo had run out in that frame; a press while an attack is in
\* progress changes neither the step nor the attack instance, the counters
\* or the projectiles; without an accepted press the step stays, or goes to
\* 0, and it goes to 0 only when more than 1.0 s of simulation time have
\* passed since the last accepted press.
C21_ComboCycle ==
    [][Played =>
         LET f == events'[1]
             timedOut == player.comboTimer + f.gameDt > COMBO_RESET_TIME
             base == IF timedOut THEN 0 ELSE player.comboStep
         IN  /\ player.comboStep \in 0..3 /\ player'.comboStep \in 0..3
             /\ IF f.in.j /\ ~player.attacking
                THEN /\ player'.comboStep = (IF base = 3 THEN 1 ELSE base + 1)
                     /\ player'.comboTimer = 0
                     /\ chron'.press = chron'.clock
                ELSE /\ player'.comboStep = base
                     /\ chron'.press = chron.press
                     /\ (player'.comboStep # player.comboStep)
                           => chron'.clock - chron.press > Cs(100)
                     /\ f.in.j =>
                           /\ player'.comboStep = player.comboStep
                           /\ player'.currentAttackId = player.currentAttackId
                           /\ player'.attackHitbox = player.attackHitbox
                           /\ player'.attackDuration = player.attackDuration
                           /\ gAttackCounter' = gAttackCounter
                           /\ gProjectileCounter' = gProjectileCounter
                           /\ Len(projectiles') = Len(projectiles)
    ]_vars

\* C21 witness: an accepted press at step 3 has started the cycle again at 1
C21_Wrapped ==
    /\ state = "PLAYING"
    /\ \E ev \in EventsOf("swing") \cup EventsOf("cast") : ev.from = 3 /\ player.comboStep = 1

\* the enemy at index i as it is before a frame (a new one has just been made)
EnemyBefore(i) == IF i <= Len(enemies) THEN enemies[i] ELSE [enemies'[i] EXCEPT !.windingUp = FALSE]

\* the windups of a frame start as the code says: the enemy is neither
\* winding up nor in its attack animation, its cooldown is 0 and its
\* rectangle overlaps the player's; and an enemy is winding up after a frame
\* without having been before only by such a start
WindupStarts ==
    /\ \A ev \in EventsOf("windup")' :
         /\ ~ev.enemy.windingUp /\ ~ev.enemy.attackingAnim
         /\ ev.enemy.attackCooldown = 0
         /\ RectOverlap(EnemyRect(ev.enemy), MakeRect(ev.player.pos, PlayerSize))
    /\ \A i \in 1..Len(enemies') :
         (enemies'[i].windingUp /\ ~EnemyBefore(i).windingUp)
            <=> \E ev \in EventsOf("windup")' : ev.e = i

\* the living enemies that start a frame in windup or attack animation
Holding == {i \in LiveEnemies : enemies[i].windingUp \/ enemies[i].attackingAnim}

\* C22 as stated: windups start under the four conditions, and an enemy in
\* windup or attack animation has the same position at the end of a frame
\* as at its start.
C22_HoldsPosition ==
    [][Played => /\ WindupStarts
                 /\ \A i \in Holding : enemies'[i].pos = enemies[i].pos]_vars

\* C22: windups start under the four conditions, and an enemy in windup or
\* attack animation has the same position at the end of a frame as at its
\* start unless a melee hit landed on it in that frame: then its y is the
\* same and its x is one knockback (35 or 90 for a Knight, 22 for a Rogue)
\* further from the player's side.
C22_HoldsButKnockback ==
    [][Played =>
         /\ WindupStarts
         /\ \A i \in Holding :
              IF \E ev \in EventsOf("melee")' : ev.e = i
              THEN /\ enemies'[i].pos.y = enemies[i].pos.y
                   /\ Abs(enemies'[i].pos.x - enemies[i].pos.x)
                        \in {KnockDist(playerClass, st) : st \in 1..3}
              ELSE enemies'[i].pos = enemies[i].pos
    ]_vars

\* C22 witness: a melee hit has landed on an enemy that is in the windup it
\* had started in an earlier frame
C22_KnockedInWindup ==
    /\ state = "PLAYING"
    /\ \E ev \in EventsOf("melee") :
         /\ enemies[ev.e].alive /\ enemies[ev.e].windingUp
         /\ chron.wind[ev.e].entryEnd < chron.clock

\* whether the last step was a PLAYING frame
AfterFrame == events # << >> /\ events[1].kind = "frame"

\* the attacks of the last frame that took HP from the player
Hits == {ev \in EventsOf("enemyAttack") : ev.hpAfter < ev.hpBefore}

\* every windup that has expired in the last frame had started, on the
\* player, its type's duration before (to the frame), and not before the
\* 1.1 s cooldown of the enemy's previous expiry had run out
AttackCycle ==
    \A ev \in EventsOf("enemyAttack") :
        LET r == chron.wind[ev.e]
            W == WindupTime(ev.type)
        IN  /\ r.expiry = chron.clock
            /\ r.entry >= 0 /\ r.onPlayer
            /\ chron.clock - r.entry >= W
            /\ chron.clock - ev.gameDt - r.entry < W
            /\ r.prevExpiry >= 0 => r.entryEnd - r.prevExpiry >= Cs(110)

\* the player's HP goes down in a PLAYING frame only by an enemy's attack
\* at the expiry of its windup
HpLoss == Played /\ player'.hp < player.hp => Hits' # {}

\* C23 as stated: HP is lost only in windup-expiry frames, after a windup of
\* the type's duration that started on the player and after the cooldown,
\* and two attacks of one enemy that took HP are at least 1.1 s plus the
\* windup apart.
C23_HitsApart ==
    /\ [](AfterFrame => /\ AttackCycle
                        /\ \A ev \in Hits :
                             chron.wind[ev.e].prevHit >= 0 =>
                                chron.wind[ev.e].hit - chron.wind[ev.e].prevHit
                                   >= Cs(110) + WindupTime(ev.type))
    /\ [][HpLoss]_vars

\* C23: HP is lost only in windup-expiry frames, after a windup of the
\* type's duration that started on the player and after the cooldown, and
\* two attacks of one enemy that took HP are at least 1.1 s plus the windup
\* less the frame of the windup's start apart (in that frame the cooldown
\* runs out and the windup timer is already counted down).
C23_HitsApartButOneFrame ==
    /\ [](AfterFrame => /\ AttackCycle
                        /\ \A ev \in Hits :
                             LET r == chron.wind[ev.e]
                             IN  r.prevHit >= 0 =>
                                    r.hit - r.prevHit
                                       >= Cs(110) + WindupTime(ev.type) - (r.entryEnd - r.entry))
    /\ [][HpLoss]_vars

\* C23 witness: an enemy has taken HP from the player for the second time
C23_SecondHit ==
    /\ AfterFrame
    /\ \E ev \in Hits : chron.wind[ev.e].prevHit >= 0 /\ chron.wind[ev.e].hit = chron.clock

\* the Boss-type enemies in the vector, dead ones included
Bosses == {i \in 1..Len(enemies) : enemies[i].type = "BOSS"}

\* C24: bossSpawned holds exactly when a Boss is in the enemy vector, and
\* there is at most one; in a PLAYING frame the boss is spawned exactly when
\* it has not been and the player's x after the frame's movement is beyond
\* LEVEL_LENGTH - 600, as the last enemy of the vector; once it is spawned
\* the vector does not grow, however far the spawn timer has run.
C24_BossOnce ==
    /\ [](/\ bossSpawned <=> Bosses # {}
          /\ Cardinality(Bosses) <= 1)
    /\ [][Played =>
            LET f == events'[1]
                px == MageBlink(RogueDodge(KnightBlock(
                          AbilityTimers(MovePlayer(player, f.in, f.gameDt), f.gameDt),
                          playerClass, f.in, f.gameDt), playerClass, f.in, f.gameDt),
                          playerClass, f.in).pos.x
            IN  /\ bossSpawned => bossSpawned' /\ Len(enemies') = Len(enemies)
                /\ ~bossSpawned =>
                      /\ bossSpawned' <=> px > LEVEL_LENGTH - Wu(600)
                      /\ bossSpawned' => enemies'[Len(enemies')].type = "BOSS"
                      /\ player'.pos.x = px
         ]_vars

\* C24 witness: the boss has been spawned and the spawn timer has run past
\* the spawn interval without a further enemy
C24_NoSpawnAfterBoss ==
    /\ state = "PLAYING" /\ bossSpawned
    /\ enemySpawnTimer > ENEMY_SPAWN_INTERVAL
    /\ Cardinality(Bosses) = 1

\* the coins flagged collected
CollectedCoins == {k \in 1..Len(coins) : coins[k].collected}

\* what the upgrades the player holds have cost: 5, 10, 15, ... per track
PaidFor == LET Sum(n) == 5 * ((n * (n + 1)) \div 2)
           IN  Sum(player.damageLevel) + Sum(player.healthLevel) + Sum(player.speedLevel)

\* the coins the dead enemies among the first n of the vector are worth
RECURSIVE Rewards(_)
Rewards(n) ==
    IF n = 0 THEN 0
    ELSE Rewards(n - 1) + (IF enemies[n].alive THEN 0
                           ELSE IF enemies[n].type = "BOSS" THEN 10
                           ELSE IF enemies[n].type = "TANK" THEN 3
                           ELSE 1)

\* C25: in every state the currency balance is the number of collected
\* coins less what the held upgrades have cost, and there are as many coin
\* entities as the dead enemies are worth (1/1/3/10); a coin stays where it
\* is and, once collected, stays collected; a PLAYING frame adds to the
\* balance exactly the number of coins it has flagged collected.
C25_CoinsAccount ==
    /\ [](/\ player.coins = Cardinality(CollectedCoins) - PaidFor
          /\ Len(coins) = Rewards(Len(enemies)))
    /\ [][/\ \A k \in 1..Len(coins) :
                k <= Len(coins') =>
                   /\ coins'[k].pos = coins[k].pos
                   /\ coins[k].collected => coins'[k].collected
          /\ Played =>
                /\ Len(coins') >= Len(coins)
                /\ player'.coins = player.coins + Cardinality(CollectedCoins' \ CollectedCoins)
         ]_vars

\* C25 witness: the player has collected coins, paid for an upgrade and
\* holds the rest
C25_CollectedAndSpent ==
    /\ PaidFor > 0
    /\ player.coins > 0
    /\ player.coins = Cardinality(CollectedCoins) - PaidFor

\* the ability of the class played, its cooldown (1.0 / 0.9 / 1.2 s), its
\* cooldown timer and whether it is in progress
AbilityOf == IF playerClass = "KNIGHT" THEN "block" ELSE IF playerClass = "ROGUE" THEN "dodge" ELSE "blink"

AbilityCooldown == IF playerClass = "KNIGHT" THEN Cs(100) ELSE IF playerClass = "ROGUE" THEN Cs(90) ELSE Cs(120)

AbilityTimer(p) ==
    IF playerClass = "KNIGHT" THEN p.blockCooldownTimer
    ELSE IF playerClass = "ROGUE" THEN p.dodgeCooldownTimer
    ELSE p.blinkCooldownTimer

AbilityActive(p) ==
    IF playerClass = "KNIGHT" THEN p.blocking ELSE IF playerClass = "ROGUE" THEN p.dodging ELSE FALSE

\* C26: a PLAYING frame activates an ability only of the class played, only
\* on a press of its key, with its cooldown timer (after this frame's
\* decrement) at 0 and the ability not in progress, and then sets the
\* timer to the cooldown; a frame with a press that is refused ends in the
\* state the same frame without the press ends in; the timer rises only by
\* an activation; two activations are at least the cooldown apart in
\* simulation time.
C26_AbilityCooldown ==
    [][Played =>
         LET f == events'[1]
             left == IF AbilityTimer(player) - f.gameDt < 0 THEN 0
                     ELSE AbilityTimer(player) - f.gameDt
             ready == left = 0 /\ ~AbilityActive(player)
             used == {ev.name : ev \in EventsOf("ability")'}
             calm == PlayingFrame([World EXCEPT !.gHitStopTimer = f.hs], [f.in EXCEPT !.k = FALSE],
                                  f.gameDt)
         IN  /\ used \subseteq {AbilityOf}
             /\ used # {} <=> f.in.k /\ ready
             /\ used # {} =>
                   /\ AbilityTimer(player') = AbilityCooldown
                   /\ chron'.use[AbilityOf] = chron'.clock
                   /\ chron.use[AbilityOf] >= 0 =>
                         chron'.clock - chron.use[AbilityOf] >= AbilityCooldown
             /\ used = {} => /\ AbilityTimer(player') = left
                             /\ chron'.use = chron.use
             /\ f.in.k /\ ~ready =>
                   /\ player' = calm.player /\ enemies' = calm.enemies
                   /\ coins' = calm.coins /\ projectiles' = calm.projectiles
                   /\ state' = calm.state /\ gHitStopTimer' = calm.gHitStopTimer
                   /\ bossSpawned' = calm.bossSpawned /\ bossDefeated' = calm.bossDefeated
                   /\ enemySpawnTimer' = calm.enemySpawnTimer
                   /\ gAttackCounter' = calm.gAttackCounter
                   /\ gProjectileCounter' = calm.gProjectileCounter
    ]_vars

\* C26 witness: a Knight has raised its block for the second time
C26_SecondBlock ==
    /\ state = "PLAYING" /\ playerClass = "KNIGHT"
    /\ \E ev \in EventsOf("ability") : ev.name = "block" /\ chron.prevUse["block"] >= 0
    /\ player.blocking

\* how long an activation makes the player invincible: the dodge's 0.25 s,
\* the blink's 0.15 s
InvincibleTime == IF playerClass = "ROGUE" THEN Cs(25) ELSE IF playerClass = "MAGE" THEN Cs(15) ELSE 0

\* C27: in every state a dodging player is invincible, and no windup that
\* has expired in a frame that ends with the dodge in progress has taken
\* HP; an invincible player has time left on the invincibility timer and
\* is less than the dodge's (blink's) duration of simulation time past the
\* activation; in a PLAYING frame without an activation the invincibility
\* stays exactly when the timer less the frame's simulation time is above 0.
C27_DodgeInvincible ==
    /\ [](/\ player.dodging => player.invincible
          /\ AfterFrame /\ player.dodging =>
                \A ev \in EventsOf("enemyAttack") : ev.invincible /\ ev.hpAfter = ev.hpBefore
          /\ player.invincible =>
                /\ player.invincibleTimer > 0
                /\ chron.use[AbilityOf] >= 0
                /\ chron.clock - chron.use[AbilityOf] < InvincibleTime)
    /\ [][Played /\ player.invincible /\ EventsOf("ability")' = {} =>
            /\ player'.invincibleTimer = player.invincibleTimer - events'[1].gameDt
            /\ player'.invincible <=> player'.invincibleTimer > 0
         ]_vars

\* C27 witness: a windup has expired on a Rogue in the middle of its dodge
\* (the dodge timer still running) and has taken nothing of its HP
C27_DodgedWindup ==
    /\ AfterFrame /\ player.dodging /\ player.dodgeTimer > 0
    /\ chron.use["dodge"] < chron.clock
    /\ \E ev \in EventsOf("enemyAttack") :
         ev.overlap /\ ev.hpAfter = ev.hpBefore /\ ev.hpAfter = player.hp

\* C28: in every state blocking is true only for a Knight, dodging only for
\* a Rogue and invincible only for a Rogue or a Mage, so blocking and
\* invincible are never both true; and outside MENU the class played is the
\* class at the selected class index.
C28_AbilitiesByClass ==
    /\ player.blocking => playerClass = "KNIGHT"
    /\ player.dodging => playerClass = "ROGUE"
    /\ player.invincible => playerClass \in {"ROGUE", "MAGE"}
    /\ ~(player.blocking /\ player.invincible)
    /\ state # "MENU" => playerClass = classes[selectedClassIndex + 1].type

\* C28 witness: a Mage, selected at index 2, is invincible after a blink in
\* a run that has left the menu
C28_InvincibleMage ==
    /\ state = "PLAYING" /\ selectedClassIndex = 2 /\ playerClass = "MAGE"
    /\ player.invincible /\ ~player.blocking /\ ~player.dodging

\* whether x is within the level and its margin of 200 on either side
InMargin(x) == x >= -Wu(200) /\ x <= LEVEL_LENGTH + Wu(200)

\* C29: in every state an active projectile has lifetime left, is within
\* [-200, LEVEL_LENGTH + 200] and is less than 1.2 s of simulation time
\* old; over a PLAYING frame an inactive projectile stays as it is, an
\* active one moves by its velocity, loses the frame's time of its lifetime
\* and stays active exactly when lifetime is left and it is within the
\* margin; in every other frame the projectiles stay as they are (or are
\* cleared by a restart); every projectile that has hit an enemy in a frame
\* was active before the hit and is active at the end of the frame.
C29_ProjectileEnds ==
    /\ [](/\ Len(chron.cast) = Len(projectiles)
          /\ \A k \in 1..Len(projectiles) :
                projectiles[k].active =>
                   /\ projectiles[k].life > 0
                   /\ InMargin(projectiles[k].pos.x)
                   /\ chron.clock - chron.cast[k] < Cs(120)
          /\ \A ev \in EventsOf("proj") : ev.projectile.active /\ projectiles[ev.k].active)
    /\ [][\A k \in 1..Len(projectiles) :
             IF Played
             THEN LET q == projectiles[k]
                      q1 == projectiles'[k]
                      dt == events'[1].gameDt
                  IN  IF ~q.active THEN q1 = q
                      ELSE /\ q1.pos.x = q.pos.x + Quot(q.vel.x * dt * U, Tk)
                           /\ q1.pos.y = q.pos.y
                           /\ q1.life = q.life - dt
                           /\ q1.active <=> (q1.life > 0 /\ InMargin(q1.pos.x))
                           /\ q1.id = q.id /\ q1.damage = q.damage /\ q1.vel = q.vel
             ELSE projectiles' = << >> \/ projectiles'[k] = projectiles[k]
         ]_vars

\* C29 witness: a projectile whose lifetime has run out lies, inactive, on
\* a living enemy that does not bear its id, and the frame has not made it
\* hit that enemy
C29_SpentOnEnemy ==
    /\ AfterFrame
    /\ \E k \in 1..Len(projectiles) :
         /\ ~projectiles[k].active
         /\ projectiles[k].life <= 0 /\ chron.clock - chron.cast[k] >= Cs(120)
         /\ \E i \in LiveEnemies :
              /\ CircleRecOverlap(projectiles[k].pos, projectiles[k].radius, EnemyRect(enemies[i]))
              /\ enemies[i].lastProjectileHitId # projectiles[k].id
              /\ \A ev \in EventsOf("proj") : ~(ev.k = k /\ ev.e = i)

\* the player without what a purchase may change
Unbought(p) ==
    [p EXCEPT !.coins = 0, !.damageLevel = 0, !.healthLevel = 0, !.speedLevel = 0,
              !.baseDamage = 0, !.maxHP = 0, !.hp = 0, !.speed = 0]

\* a SHOP frame leaves enemies, projectiles, coins, spawn state and
\* counters as they are, and the player too except for what a purchase
\* changes (HP only by a max-HP purchase); it ends in SHOP, or in PLAYING
\* exactly on open-shop or cancel
ShopKeepsWorld ==
    /\ UNCHANGED << enemies, coins, projectiles, bossSpawned, bossDefeated, enemySpawnTimer,
                    gAttackCounter, gProjectileCounter, playerClass, selectedClassIndex >>
    /\ Unbought(player') = Unbought(player)
    /\ player'.hp # player.hp => player'.healthLevel = player.healthLevel + 1
    /\ Bought' = {} => player' = player
    /\ state' = (IF pressed'.tab \/ pressed'.esc THEN "PLAYING" ELSE "SHOP")

\* C30 as stated: a SHOP frame changes nothing of the world, and without a
\* purchase the simulation state (hit-stop timer included) is after it what
\* it was before, so that a round trip restores the exact pre-shop state.
C30_ShopRestoresAll ==
    [][state = "SHOP" => /\ ShopKeepsWorld
                         /\ Bought' = {} => gHitStopTimer' = gHitStopTimer]_vars

\* C30: a SHOP frame changes nothing of the world, and without a purchase
\* the simulation state is after it what it was before, but for the
\* hit-stop timer: it goes on draining, by the frame time (at most the cap
\* of 50 ms), down to 0.
C30_ShopRestoresButHitStop ==
    [][state = "SHOP" => /\ ShopKeepsWorld
                         /\ gHitStopTimer' <= gHitStopTimer
                         /\ gHitStopTimer' >= 0
                         /\ gHitStopTimer' > 0 => gHitStopTimer - gHitStopTimer' <= MaxFrameTime
                         /\ gHitStopTimer' = 0 => gHitStopTimer <= MaxFrameTime
      ]_vars

\* C30 witness: back from the shop by cancel, without a purchase in the
\* last frame, the hit-stop timer at 0, with an attack of the player in
\* progress and a living enemy
C30_BackFromShop ==
    /\ state = "PLAYING" /\ pressed.esc /\ events = << >>
    /\ gHitStopTimer = 0
    /\ player.attacking /\ LiveEnemies # {}

\* the hits of the last frame that start a hit stop: melee hits and enemy
\* attacks that took HP
Stoppers == EventsOf("melee") \cup Hits

\* C31: the hit-stop timer is never above 0.06 s; a PLAYING frame leaves it
\* at what the frame's decrement left, or, with a hit in the frame, at the
\* maximum of that and 0.03, 0.05 or 0.06 s, never at a sum; and the frames
\* without simulation time that follow one another take less than 0.11 s
\* of real time together (a hit stop of at most 0.05 s in which one swing
\* can land once, for at most 0.06 s), whatever the inputs.
C31_HitStopBounded ==
    /\ [](/\ gHitStopTimer >= 0 /\ gHitStopTimer <= Cs(6)
          /\ chron.frozen < Cs(11))
    /\ [][Played =>
            LET f == events'[1]
            IN  /\ f.hs = (IF gHitStopTimer - f.realDt < 0 THEN 0 ELSE gHitStopTimer - f.realDt)
                /\ f.gameDt = (IF f.hs > 0 THEN 0 ELSE f.realDt)
                /\ Stoppers' = {} => gHitStopTimer' = f.hs
                /\ Stoppers' # {} =>
                      /\ gHitStopTimer' \in {Max2(f.hs, h) : h \in {Cs(3), Cs(5), Cs(6)}}
                      /\ gHitStopTimer' >= Cs(3)
         ]_vars

\* C31 witness: a swing has landed in a frame without simulation time and
\* has raised the running hit-stop timer to its own value
C31_HitInFrozenFrame ==
    /\ AfterFrame /\ events[1].gameDt = 0 /\ events[1].hs > 0
    /\ EventsOf("melee") # {}
    /\ gHitStopTimer > events[1].hs
    /\ chron.frozen > 0

\* C32: the selected class index and the shop selection are in {0,1,2} in
\* every state.  In a MENU frame KEY_RIGHT alone moves the class index one
\* up and from 2 to 0, KEY_LEFT alone one down and from 0 to 2; in a SHOP
\* frame KEY_DOWN alone moves the shop selection one up and from 2 to 0,
\* KEY_UP alone one down and from 0 to 2; without an arrow key they stay.
\* So every purchase prices and applies an upgrade index in {0,1,2}, and
\* every game started from the menu plays the class at an index in {0,1,2}.
C32_SelectionsInRange ==
    /\ [](/\ selectedClassIndex \in 0 .. 2
          /\ shopSelection \in 0 .. 2
          /\ \A ev \in EventsOf("buy") : ev.index \in 0 .. 2 /\ ev.index = shopSelection)
    /\ [][/\ state = "MENU" =>
               /\ selectedClassIndex' =
                     (selectedClassIndex
                        + (IF pressed'.right /\ ~pressed'.left THEN 1 ELSE 0)
                        + (IF pressed'.left /\ ~pressed'.right THEN 2 ELSE 0)) % 3
               /\ shopSelection' = shopSelection
               /\ state' = "PLAYING" => playerClass' = classes[selectedClassIndex' + 1].type
          /\ state = "SHOP" =>
               /\ shopSelection' =
                     (shopSelection
                        + (IF pressed'.down /\ ~pressed'.up THEN 1 ELSE 0)
                        + (IF pressed'.up /\ ~pressed'.down THEN 2 ELSE 0)) % 3
               /\ selectedClassIndex' = selectedClassIndex
          /\ state \notin {"MENU", "SHOP"} =>
               /\ selectedClassIndex' = selectedClassIndex
               /\ shopSelection' = shopSelection
         ]_vars

\* C32 witness: after the class selection went round in the menu (left
\* from 0 to 2, right from 2 to 0), KEY_UP has taken the shop selection
\* from 0 to 2 and the speed upgrade at index 2 was bought, and KEY_DOWN
\* now has taken the selection from 2 to 0
C32_WrappedAround ==
    /\ plan = "shop" /\ state = "SHOP"
    /\ pressed.down /\ shopSelection = 0
    /\ player.speedLevel > 0

\* C33: while an attack is active the combo step is the one its press
\* set, in {1,2,3}; the combo timer is not ahead of the attack timer, which
\* is within an attack duration below the 1.0 s combo reset time; from a
\* state with an attack active to the next with an attack active the combo
\* step and the attack id are the same; and every melee hit is of the
\* current attack id and takes the damage of the step of its press, so all
\* enemies hit by one attack instance are damaged with one multiplier.
C33_ComboStepFixed ==
    /\ [](/\ player.attacking =>
               /\ player.comboStep \in 1 .. 3
               /\ player.comboStep = chron.pressStep
               /\ player.comboTimer <= player.attackTimer
               /\ player.attackTimer <= player.attackDuration
               /\ player.attackDuration < COMBO_RESET_TIME
          /\ \A ev \in EventsOf("melee") :
               /\ ev.id = player.currentAttackId
               /\ ev.step = chron.pressStep
               /\ ev.hpBefore - ev.hpAfter
                    = ComboDamage(ev.baseDamage, playerClass, chron.pressStep))
    /\ [][player.attacking /\ player'.attacking =>
             /\ player'.comboStep = player.comboStep
             /\ player'.currentAttackId = player.currentAttackId
             /\ chron'.pressStep = chron.pressStep
         ]_vars

\* C33 witness: a swing at combo step 2 or 3 is active and has hit two
\* enemies, both for the damage of that step
C33_OneSwingTwoEnemies ==
    /\ AfterFrame
    /\ player.attacking /\ player.comboStep >= 2
    /\ \E ev \in EventsOf("melee") :
         \E j \in 1 .. Len(enemies) :
            /\ j # ev.e
            /\ << "melee", j, ev.id >> \in applied
            /\ ev.step = player.comboStep

\* the levels of the three upgrade tracks
Levels(p) == << p.damageLevel, p.healthLevel, p.speedLevel >>

\* the class record of the class being played
PlayedClass == CHOOSE cc \in {classes[i] : i \in 1 .. NumClasses} : cc.type = playerClass

\* C34: in every state base damage = class base damage + 3 x damage level,
\* max HP = class max HP + 15 x health level and speed = class speed +
\* 20 x speed level, with the three levels >= 0.  The levels change only
\* in a SHOP frame with a paid purchase, where the level of the selected
\* track rises by one and the others stay, and in a reset from MENU,
\* GAMEOVER or VICTORY, which sets all three to 0.
C34_StatsMatchLevels ==
    /\ [](/\ player.damageLevel >= 0 /\ player.healthLevel >= 0 /\ player.speedLevel >= 0
          /\ player.baseDamage = PlayedClass.baseDamage + 3 * player.damageLevel
          /\ player.maxHP = PlayedClass.maxHP + 15 * player.healthLevel
          /\ player.speed = PlayedClass.speed + 20 * player.speedLevel)
    /\ [][Levels(player') # Levels(player) =>
            \/ /\ state = "SHOP" /\ Bought' # {}
               /\ \A ev \in Bought' :
                     Levels(player') = [Levels(player) EXCEPT ![ev.index + 1] = @ + 1]
            \/ /\ state \in {"MENU", "GAMEOVER", "VICTORY"} /\ pressed'.enter
               /\ Levels(player') = << 0, 0, 0 >>
         ]_vars

\* C34 witness: every track has been bought once
C34_UpgradedAll ==
    /\ player.damageLevel >= 1 /\ player.healthLevel >= 1 /\ player.speedLevel >= 1
    /\ player.baseDamage > PlayedClass.baseDamage
    /\ player.maxHP > PlayedClass.maxHP
    /\ player.speed > PlayedClass.speed

\* C35: the block, dodge and blink cooldown timers, the block and dodge
\* duration timers, the invincibility timer, and every enemy's attack
\* cooldown, windup and attack-animation timers are >= 0 in every state.
C35_TimersNonNegative ==
    /\ player.blockCooldownTimer >= 0
    /\ player.dodgeCooldownTimer >= 0
    /\ player.blinkCooldownTimer >= 0
    /\ player.blockTimer >= 0
    /\ player.dodgeTimer >= 0
    /\ player.invincibleTimer >= 0
    /\ \A i \in 1 .. Len(enemies) :
         /\ enemies[i].attackCooldown >= 0
         /\ enemies[i].windupTimer >= 0
         /\ enemies[i].attackAnimTimer >= 0

=============================================================================
